---- MODULE Spec2Model ----
(***************************************************************************)
(* Model of the room events DAG of matrix-visualisations                   *)
(* (src/src/model/dag.rs, src/src/model/event.rs).                         *)
(*                                                                         *)
(* A `RoomEvents` value is the record returned by `Self`; node indices of  *)
(* the petgraph `Graph` are the positions 1..Len(dag_nodes) (petgraph      *)
(* counts from 0, the model from 1; `add_node` always appends).            *)
(***************************************************************************)
EXTENDS Integers, Sequences, FiniteSets, TLC

\* Bounds of the exploration.
MaxBatch == 3   \* longest list of events handed to one ingestion call
MaxNodes == 4   \* most nodes the graph may hold
MaxCalls == 3   \* most ingestion calls in one behaviour

----------------------------------------------------------------------------
\* JSON values of a `prev_events` entry: a bare string, or the array
\* [id, {hashes}] of the older room versions.
JObj == [kind |-> "object"]
JStr(id) == [kind |-> "string", str |-> id]
JArr(id) == [kind |-> "array", items |-> <<JStr(id), JObj>>]

\* A raw event is a JSON object: a record whose domain is the keys it holds.
\* Of the fields of Event the model keeps event_id, depth, origin_server_ts,
\* origin, sender, type, prev_events, hashes (a JsonValue, like content,
\* auth_events and signatures) and the Options unsigned, state_key, redacts.
\* The raw events the homeserver may deliver: a chain e1 <- e2 <- e3 <- e4.
RawEvent(id, depth, ts, prev) ==
    [event_id |-> id, depth |-> depth, origin_server_ts |-> ts,
     origin |-> "hs", sender |-> "@a:hs", type |-> "m.room.message",
     prev_events |-> prev, hashes |-> JObj, unsigned |-> "age"]

E1 == RawEvent("e1", 1, 10, <<>>)
E2 == RawEvent("e2", 2, 20, <<JStr("e1")>>)
E3 == RawEvent("e3", 3, 30, <<JStr("e2")>>)
E4 == RawEvent("e4", 4, 40, <<JArr("e3")>>)

RawEvents == {E1, E2, E3, E4}

\* A JSON object without one of its keys.
Without(json, key) == [k \in DOMAIN json \ {key} |-> json[k]]

\* A JSON object with one more key.
With(json, key, val) ==
    [k \in DOMAIN json \cup {key} |-> IF k = key THEN val ELSE json[k]]

\* Events that tie, repeat a parent or come twice with another `unsigned`:
\* t2 has the depth and the timestamp of e2 and names e1 twice, once in each
\* encoding; E2Aged is e2 as another request returns it.
T2 == RawEvent("t2", 2, 20, <<JStr("e1"), JArr("e1")>>)
E2Aged == [E2 EXCEPT !.unsigned = "older"]
TieEvents == {E1, E2, T2, E2Aged}

\* Events of which some lack a key: event_id, hashes (both required by serde)
\* or unsigned (an Option).
E2NoUnsigned == Without(E2, "unsigned")
E3NoEventId == Without(E3, "event_id")
E3NoHashes == Without(E3, "hashes")
PartialEvents == {E1, E2NoUnsigned, E3NoEventId, E3NoHashes}

\* An event with two parents, e1 and an event x1 that is never delivered.
M2 == RawEvent("m2", 2, 25, <<JStr("e1"), JStr("x1")>>)

RECURSIVE SeqsOver(_, _)
SeqsOver(S, n) ==
    IF n = 0 THEN {<<>>}
    ELSE LET shorter == SeqsOver(S, n - 1)
         IN  shorter \cup {Append(q, x) : q \in {r \in shorter : Len(r) = n - 1}, x \in S}

Range(q) == {q[i] : i \in DOMAIN q}

\* Lists of raw events in one response: any order, no event twice in a list.
BatchesOver(U) == {q \in SeqsOver(U, MaxBatch) : Cardinality(Range(q)) = Len(q)}
Batches == BatchesOver(RawEvents)

\* A SyncResponse: `joined` says whether rooms.join holds the observed room.
SyncResponsesOver(U) == [joined : BOOLEAN, events : BatchesOver(U)]
SyncResponses == SyncResponsesOver(RawEvents)

----------------------------------------------------------------------------
\* get_prev_events that reads the bare strings only.
get_prev_events_bare_only(ev) ==
    [i \in DOMAIN ev.prev_events |->
        IF ev.prev_events[i].kind = "array" THEN "" ELSE ev.prev_events[i].str]

\* Event::get_prev_events
get_prev_events(ev) ==
    [i \in DOMAIN ev.prev_events |->
        IF ev.prev_events[i].kind = "array"
        THEN ev.prev_events[i].items[1].str
        ELSE ev.prev_events[i].str]

\* Event ordering used by `<` and `>` on events: depth, then origin_server_ts.
Lt(a, b) ==
    \/ a.depth < b.depth
    \/ a.depth = b.depth /\ a.origin_server_ts < b.origin_server_ts

\* The fields of Event that serde requires, and those that are an Option.
RequiredFields ==
    {"event_id", "depth", "origin_server_ts", "origin", "sender", "type",
     "prev_events", "hashes"}
OptionFields == {"unsigned", "state_key", "redacts"}

\* serde_json::from_value::<Event> returns Ok for the JSON object.
from_value_ok(json) == RequiredFields \subseteq DOMAIN json

\* The Event that serde_json::from_value builds: a missing Option field is None.
from_value(json) ==
    [f \in RequiredFields \cup OptionFields |->
        IF f \in DOMAIN json THEN json[f] ELSE "None"]

\* parse_events panics (`expect`) when one of the values is not an Event.
parse_events_panics(json_events) ==
    \E i \in DOMAIN json_events : ~from_value_ok(json_events[i])

\* parse_events: serde deserialisation of each JSON value into an Event.
parse_events(json_events) == [i \in DOMAIN json_events |-> from_value(json_events[i])]

----------------------------------------------------------------------------
\* enum Field, in the order Event::label tests the fields.
Field ==
    <<"Sender", "Origin", "OriginServerTS", "Type", "StateKey", "PrevEvents",
      "Depth", "Redacts", "EventID">>

\* str::trim_end on a text kept as a list of pieces: the pieces that are white
\* space or empty are dropped from the end.
RECURSIVE trim_end(_)
trim_end(text) ==
    IF text # <<>> /\ text[Len(text)] \in {" ", "\n", ""}
    THEN trim_end(SubSeq(text, 1, Len(text) - 1))
    ELSE text

RECURSIVE label_prev_events(_)
label_prev_events(ids) ==
    IF ids = <<>> THEN <<>> ELSE <<" ", Head(ids)>> \o label_prev_events(Tail(ids))

\* The label as it would be without the final trim_end.
label_untrimmed(ev, fields) ==
    LET Line(f, name, value) ==
            IF f \in fields THEN <<name, " ", value, "\n">> ELSE <<>>
        Opt(f, name, value) ==
            IF f \in fields /\ value # "None" THEN <<name, " ", value, "\n">> ELSE <<>>
    IN  Line("Sender", "Sender:", ev.sender)
        \o Line("Origin", "Origin:", ev.origin)
        \o Line("OriginServerTS", "Origin server time stamp:",
                ToString(ev.origin_server_ts))
        \o Line("Type", "Type:", ev.type)
        \o Opt("StateKey", "State key:", ev.state_key)
        \o (IF "PrevEvents" \in fields
            THEN <<"Previous events:">> \o label_prev_events(get_prev_events(ev))
                 \o <<"\n">>
            ELSE <<>>)
        \o Line("Depth", "Depth:", ToString(ev.depth))
        \o Opt("Redacts", "Redacts:", ev.redacts)
        \o Line("EventID", "Event ID:", ev.event_id)

\* Event::label: the text is the list of its pieces, "Name:", " ", value, "\n".
label(ev, fields) ==
    LET Line(f, name, value) ==
            IF f \in fields THEN <<name, " ", value, "\n">> ELSE <<>>
        Opt(f, name, value) ==
            IF f \in fields /\ value # "None" THEN <<name, " ", value, "\n">> ELSE <<>>
    IN  trim_end(
            Line("Sender", "Sender:", ev.sender)
            \o Line("Origin", "Origin:", ev.origin)
            \o Line("OriginServerTS", "Origin server time stamp:",
                    ToString(ev.origin_server_ts))
            \o Line("Type", "Type:", ev.type)
            \o Opt("StateKey", "State key:", ev.state_key)
            \o (IF "PrevEvents" \in fields
                THEN <<"Previous events:">> \o label_prev_events(get_prev_events(ev))
                     \o <<"\n">>
                ELSE <<>>)
            \o Line("Depth", "Depth:", ToString(ev.depth))
            \o Opt("Redacts", "Redacts:", ev.redacts)
            \o Line("EventID", "Event ID:", ev.event_id))

\* Event::to_data_set_node(server_name, fields)
to_data_set_node_with(ev, server_name, fields) ==
    [id |-> ev.event_id,
     label |-> label(ev, fields),
     level |-> ev.depth,
     color |-> IF ev.origin = server_name
               THEN [border |-> "#006633", background |-> "#009900"]
               ELSE [border |-> "#990000", background |-> "#ff6600"]]

----------------------------------------------------------------------------
EmptyMap == [x \in {} |-> 0]

MapInsert(m, k, v) == [x \in DOMAIN m \cup {k} |-> IF x = k THEN v ELSE m[x]]

RECURSIVE Flatten(_)
Flatten(ss) == IF ss = <<>> THEN <<>> ELSE Head(ss) \o Flatten(Tail(ss))

\* Graph::find_edge
find_edge(dag_edges, a, b) == \E i \in DOMAIN dag_edges : dag_edges[i] = <<a, b>>

\* get_new_edges: the missing edges of the nodes whose depth is in min_depth..max_depth.
get_new_edges(dag_nodes, dag_edges, events_map, depth_map, min_depth, max_depth) ==
    LET depths == [k \in 1..(max_depth - min_depth + 1) |-> max_depth - k + 1]
        OfNode(idx) ==
            LET prev  == get_prev_events(dag_nodes[idx])
                known == SelectSeq(prev, LAMBDA id : id \in DOMAIN events_map)
                pairs == [j \in DOMAIN known |-> <<idx, events_map[known[j]]>>]
            IN  SelectSeq(pairs, LAMBDA e : ~find_edge(dag_edges, e[1], e[2]))
        OfDepth(d) ==
            IF d \in DOMAIN depth_map
            THEN Flatten([j \in DOMAIN depth_map[d] |-> OfNode(depth_map[d][j])])
            ELSE <<>>
    IN  Flatten([k \in DOMAIN depths |-> OfDepth(depths[k])])

\* The value of the fields before from_sync_response has read any event.
NewRoomEvents ==
    [dag_nodes |-> <<>>, dag_edges |-> <<>>, events_map |-> EmptyMap,
     depth_map |-> EmptyMap, latest_event |-> "", earliest_event |-> "",
     max_depth |-> -1, min_depth |-> -1]

\* dag.add_node, events_map.insert and the depth_map update of the three loops.
InsertEvent(s, event) ==
    LET index == Len(s.dag_nodes) + 1
    IN  [s EXCEPT
            !.dag_nodes  = Append(s.dag_nodes, event),
            !.events_map = MapInsert(s.events_map, event.event_id, index),
            !.depth_map  = MapInsert(s.depth_map, event.depth,
                              IF event.depth \in DOMAIN s.depth_map
                              THEN Append(s.depth_map[event.depth], index)
                              ELSE <<index>>)]

\* The node weight the events map locates for an id.
EventOf(s, id) == s.dag_nodes[s.events_map[id]]

\* Loop body of from_sync_response.
SyncStep(s, event) ==
    LET t == InsertEvent(s, event)
    IN  IF t.latest_event = ""
        THEN [t EXCEPT !.latest_event = event.event_id,
                       !.earliest_event = event.event_id,
                       !.max_depth = event.depth,
                       !.min_depth = event.depth]
        ELSE IF t.latest_event \in DOMAIN t.events_map
        THEN IF Lt(EventOf(t, t.latest_event), event)
             THEN [t EXCEPT !.latest_event = event.event_id, !.max_depth = event.depth]
             ELSE t
        ELSE IF t.earliest_event \in DOMAIN t.events_map
        THEN IF Lt(event, EventOf(t, t.earliest_event))
             THEN [t EXCEPT !.earliest_event = event.event_id, !.min_depth = event.depth]
             ELSE t
        ELSE t

\* Loop body of add_new_events.
NewStep(s, event) ==
    LET t == InsertEvent(s, event)
    IN  IF t.latest_event \in DOMAIN t.events_map
           /\ Lt(EventOf(t, t.latest_event), event)
        THEN [t EXCEPT !.latest_event = event.event_id, !.max_depth = event.depth]
        ELSE t

\* Loop body of add_prev_events.
PrevStep(s, event) ==
    LET t == InsertEvent(s, event)
    IN  IF t.earliest_event \in DOMAIN t.events_map
           /\ Lt(event, EventOf(t, t.earliest_event))
        THEN [t EXCEPT !.earliest_event = event.event_id, !.min_depth = event.depth]
        ELSE t

RECURSIVE SyncLoop(_, _)
SyncLoop(s, events) ==
    IF events = <<>> THEN s ELSE SyncLoop(SyncStep(s, Head(events)), Tail(events))

RECURSIVE NewLoop(_, _)
NewLoop(s, events) ==
    IF events = <<>> THEN s ELSE NewLoop(NewStep(s, Head(events)), Tail(events))

RECURSIVE PrevLoop(_, _)
PrevLoop(s, events) ==
    IF events = <<>> THEN s ELSE PrevLoop(PrevStep(s, Head(events)), Tail(events))

\* dag.extend_with_edges
extend_with_edges(s, edges) == [s EXCEPT !.dag_edges = s.dag_edges \o edges]

\* RoomEvents::from_sync_response, for a response that holds the room.
from_sync_response(timeline) ==
    LET t == SyncLoop(NewRoomEvents, parse_events(timeline))
    IN  extend_with_edges(t,
            get_new_edges(t.dag_nodes, t.dag_edges, t.events_map, t.depth_map,
                          t.min_depth, t.max_depth))

\* RoomEvents::add_new_events, for a response that holds the room.
add_new_events(s, timeline) ==
    LET old_max_depth == s.max_depth
        t == NewLoop(s, parse_events(timeline))
    IN  extend_with_edges(t,
            get_new_edges(t.dag_nodes, t.dag_edges, t.events_map, t.depth_map,
                          old_max_depth, t.max_depth))

\* RoomEvents::add_prev_events
add_prev_events(s, events) ==
    LET old_min_depth == s.min_depth
        t == PrevLoop(s, parse_events(events))
    IN  extend_with_edges(t,
            get_new_edges(t.dag_nodes, t.dag_edges, t.events_map, t.depth_map,
                          t.min_depth, old_min_depth))

----------------------------------------------------------------------------
\* Event::to_data_set_node
to_data_set_node(ev) == [id |-> ev.event_id, level |-> ev.depth]

\* RoomEvents::to_data_set_edge
to_data_set_edge(s, e) ==
    [from |-> s.dag_nodes[e[1]].event_id, to |-> s.dag_nodes[e[2]].event_id]

Reverse(q) == [i \in DOMAIN q |-> q[Len(q) + 1 - i]]

\* Graph::edges_directed: the edges of a node, most recently added first.
edges_directed(s, idx, dir) ==
    SelectSeq(Reverse(s.dag_edges),
              LAMBDA e : IF dir = "Incoming" THEN e[2] = idx ELSE e[1] = idx)

\* RoomEvents::older_events
older_events(s, from) ==
    SelectSeq(s.dag_nodes, LAMBDA ev : Lt(ev, EventOf(s, from)))

\* newer_events with `>=` for `>`.
newer_events_or_equal(s, from) ==
    SelectSeq(s.dag_nodes, LAMBDA ev : ~Lt(ev, EventOf(s, from)))

\* RoomEvents::newer_events
newer_events(s, from) ==
    SelectSeq(s.dag_nodes, LAMBDA ev : Lt(EventOf(s, from), ev))

\* RoomEvents::older_edges
older_edges(s, events) ==
    Flatten([i \in DOMAIN events |->
                edges_directed(s, s.events_map[events[i].event_id], "Incoming")])

\* RoomEvents::newer_edges
newer_edges(s, events) ==
    Flatten([i \in DOMAIN events |->
                edges_directed(s, s.events_map[events[i].event_id], "Outgoing")])

DataSetOf(s, events, edges) ==
    [nodes |-> [i \in DOMAIN events |-> to_data_set_node(events[i])],
     edges |-> [i \in DOMAIN edges |-> to_data_set_edge(s, edges[i])]]

\* RoomEvents::create_data_set
create_data_set(s) == DataSetOf(s, s.dag_nodes, s.dag_edges)

\* RoomEvents::get_earlier_events
get_earlier_events(s, from) ==
    LET events == older_events(s, from)
    IN  DataSetOf(s, events, older_edges(s, events))

\* RoomEvents::get_new_events
get_new_events(s, from) ==
    LET events == newer_events(s, from)
    IN  DataSetOf(s, events, newer_edges(s, events))

----------------------------------------------------------------------------
\* The application around the DAGs (src/src/lib.rs, src/src/visjs.rs).
\* A view of the code has the index 0, 1, ...; the model counts from 1.

MaxViews == 2   \* most views the user adds
MaxMsgs == 8   \* most messages Model::update processes in one behaviour

ServerName == "hs"

\* The Option<FetchTask> and Option<TimeoutTask> fields of CSView and PgView.
CSTasks ==
    {"connection_task", "listing_rooms_task", "joining_room_task", "sync_task",
     "more_msg_task", "state_task", "leaving_room_task", "disconnection_task"}
PgTasks ==
    {"deepest_task", "ancestors_task", "stop_task", "descendants_task",
     "descendants_timeout_task", "state_task"}

\* The None of an Option<Arc<RwLock<RoomEvents>>>.
NoDag == [dag_nodes |-> "None"]

\* CSSession::empty: the server name, the room id and the Options of the
\* session.
CSSession_empty ==
    [server_name |-> "", room_id |-> "",
     access_token |-> "None", next_batch_token |-> "None", prev_batch_token |-> "None"]

\* PgSession::empty
PgSession_empty == [server_name |-> "", room_id |-> "", connected |-> FALSE]

\* CSView::new
CSView_new(id) ==
    [id |-> id, kind |-> "CS", tasks |-> [t \in CSTasks |-> "None"],
     session |-> CSSession_empty, events_dag |-> NoDag]

\* PgView::new
PgView_new(id) ==
    [id |-> id, kind |-> "Postgres", tasks |-> [t \in PgTasks |-> "None"],
     session |-> PgSession_empty, events_dag |-> NoDag]

\* The default FieldsChoice of Model::create.
FieldsChoice_default ==
    [checked |-> [f \in Range(Field) |-> f = "EventID"], fields |-> {"EventID"}]

\* VisJsService::new; `nodes` and `edges` are the two vis.DataSet, id -> item.
VisJsService_new ==
    [network |-> "None", nodes |-> EmptyMap, edges |-> EmptyMap,
     earliest_events |-> <<>>, latest_events |-> <<>>, orphan_events |-> <<>>]

\* A RoomEvents of the application also holds the selected fields.
WithFields(s, selected) ==
    [k \in DOMAIN s \cup {"fields"} |-> IF k = "fields" THEN selected ELSE s[k]]

\* RoomEvents::change_fields
change_fields(s, selected) == [s EXCEPT !.fields = selected]

\* The lists earliest_events, latest_events and orphan_events of a RoomEvents.
earliest_events(s) == IF s.earliest_event = "" THEN <<>> ELSE <<s.earliest_event>>
latest_events(s) == IF s.latest_event = "" THEN <<>> ELSE <<s.latest_event>>

\* DataSet::add_prefix for the view: "subdag_<view>_" before every id.
add_prefix(ds, view_id) ==
    [nodes |-> [i \in DOMAIN ds.nodes |->
                   [ds.nodes[i] EXCEPT !.id = <<view_id, ds.nodes[i].id>>]],
     edges |-> [i \in DOMAIN ds.edges |->
                   [id   |-> <<view_id, ds.edges[i].from, ds.edges[i].to>>,
                    from |-> <<view_id, ds.edges[i].from>>,
                    to   |-> <<view_id, ds.edges[i].to>>]]]

\* RoomEvents::create_data_set with the labels of the selected fields.
create_data_set_with(s) ==
    [nodes |-> [i \in DOMAIN s.dag_nodes |->
                   to_data_set_node_with(s.dag_nodes[i], ServerName, s.fields)],
     edges |-> [i \in DOMAIN s.dag_edges |-> to_data_set_edge(s, s.dag_edges[i])]]

\* The nodes of a data set with their labels.
WithLabels(s, ds) ==
    [ds EXCEPT !.nodes = [i \in DOMAIN ds.nodes |->
        to_data_set_node_with(EventOf(s, ds.nodes[i].id), ServerName, s.fields)]]

\* vis.DataSet.add throws when an item of the list has an id the set holds, or
\* that an earlier item of the list has.
add_throws(set, items) ==
    \/ \E i \in DOMAIN items : items[i].id \in DOMAIN set
    \/ \E i, j \in DOMAIN items : i # j /\ items[i].id = items[j].id

\* vis.DataSet.add
DataSet_add(set, items) ==
    [id \in DOMAIN set \cup {items[i].id : i \in DOMAIN items} |->
        IF id \in DOMAIN set THEN set[id]
        ELSE items[CHOOSE i \in DOMAIN items : items[i].id = id]]

\* vis.DataSet.update: the items are added, or replace those of the same id.
DataSet_update(set, items) ==
    [id \in DOMAIN set \cup {items[i].id : i \in DOMAIN items} |->
        IF \E i \in DOMAIN items : items[i].id = id
        THEN items[CHOOSE i \in DOMAIN items :
                      /\ items[i].id = id
                      /\ \A j \in DOMAIN items : items[j].id = id => j <= i]
        ELSE set[id]]

\* vis.DataSet.remove of a set of ids.
DataSet_remove(set, ids) == [id \in DOMAIN set \ ids |-> set[id]]

\* RoomEvents::add_earlier_events_to_data_set: the events before the ids of
\* `from`, with the labels of the selected fields.
add_earlier_events_to_data_set(s, from) ==
    LET parts == [i \in DOMAIN from |-> WithLabels(s, get_earlier_events(s, from[i]))]
    IN  [nodes |-> Flatten([i \in DOMAIN parts |-> parts[i].nodes]),
         edges |-> Flatten([i \in DOMAIN parts |-> parts[i].edges])]

\* RoomEvents::add_new_events_to_data_set: the events after the ids of `from`.
add_new_events_to_data_set(s, from) ==
    LET parts == [i \in DOMAIN from |-> WithLabels(s, get_new_events(s, from[i]))]
    IN  [nodes |-> Flatten([i \in DOMAIN parts |-> parts[i].nodes]),
         edges |-> Flatten([i \in DOMAIN parts |-> parts[i].edges])]

\* The orphan events of a RoomEvents, as OrphanInfo {id, depth}.
OrphanInfo(s) ==
    LET orphans == SelectSeq(s.dag_nodes, LAMBDA ev :
                      \E i \in DOMAIN get_prev_events(ev) :
                          get_prev_events(ev)[i] \notin DOMAIN s.events_map)
    IN  [i \in DOMAIN orphans |-> [id |-> orphans[i].event_id, depth |-> orphans[i].depth]]

\* `min_depth` of the scripts of add_dag and update_dag.
js_min_depth(nodes) ==
    IF nodes = <<>> THEN -1
    ELSE LET levels == {nodes[i].level : i \in DOMAIN nodes}
         IN  CHOOSE m \in levels : \A l \in levels : m <= l

\* The `while len <= view_id { push(Vec::new()) }` loops of add_dag.
Pad(lists, view_id) ==
    IF Len(lists) >= view_id THEN lists
    ELSE lists \o [i \in 1..(view_id - Len(lists)) |-> <<>>]

\* The node "Load more events" and the edges that lead to it.
more_ev_node(view_id, level) ==
    [id |-> <<view_id, "more_ev">>, label |-> <<"Load more events">>, level |-> level]
more_ev_edges(view_id, events, suffix) ==
    [i \in DOMAIN events |->
        [id |-> <<view_id, events[i], suffix>>,
         from |-> <<view_id, events[i]>>, to |-> <<view_id, "more_ev">>]]

\* The nodes "Load ancestors" of the orphan events and the edges to them.
more_of_nodes(view_id, orphans) ==
    [i \in DOMAIN orphans |->
        [id |-> <<view_id, "more_of", orphans[i].id>>,
         label |-> <<"Load ancestors">>, level |-> orphans[i].depth - 1]]
more_of_edges(view_id, orphans) ==
    [i \in DOMAIN orphans |->
        [id |-> <<view_id, orphans[i].id, "_more_of">>,
         from |-> <<view_id, orphans[i].id>>,
         to |-> <<view_id, "more_of", orphans[i].id>>]]

\* A list of calls of vis.DataSet.add on one set, in order: the set after
\* them and whether one of them throws.
RECURSIVE AddEach(_, _)
AddEach(set, lists) ==
    IF lists = <<>> THEN [set |-> set, throws |-> FALSE]
    ELSE IF add_throws(set, Head(lists)) THEN [set |-> set, throws |-> TRUE]
    ELSE AddEach(DataSet_add(set, Head(lists)), Tail(lists))

Singles(items) == [i \in DOMAIN items |-> <<items[i]>>]
IdsOf(items) == {items[i].id : i \in DOMAIN items}

\* VisJsService::add_dag: the service after the call and whether the script throws.
add_dag(v, s, view_id, backend) ==
    LET events == add_prefix(create_data_set_with(s), view_id)
        w == [v EXCEPT
                !.earliest_events = [Pad(@, view_id) EXCEPT ![view_id] = earliest_events(s)],
                !.latest_events = [Pad(@, view_id) EXCEPT ![view_id] = latest_events(s)],
                !.orphan_events = [Pad(@, view_id) EXCEPT ![view_id] = OrphanInfo(s)]]
        nodes == IF backend = "CS"
                 THEN AddEach(v.nodes,
                        <<events.nodes,
                          <<more_ev_node(view_id, js_min_depth(events.nodes) - 1)>>>>)
                 ELSE AddEach(v.nodes,
                        <<events.nodes>> \o
                        Singles(more_of_nodes(view_id, w.orphan_events[view_id])))
        edges == IF backend = "CS"
                 THEN AddEach(v.edges,
                        <<events.edges>> \o
                        Singles(more_ev_edges(view_id, w.earliest_events[view_id], "_more_ev")))
                 ELSE AddEach(v.edges,
                        <<events.edges>> \o
                        Singles(more_of_edges(view_id, w.orphan_events[view_id])))
    IN  [vis |-> [w EXCEPT !.nodes = nodes.set, !.edges = edges.set],
         throws |-> nodes.throws \/ edges.throws]

\* VisJsService::remove_dag: the items whose id starts with "subdag_<view>_".
remove_dag(v, view_id) ==
    [v EXCEPT
        !.earliest_events[view_id] = <<>>,
        !.latest_events[view_id] = <<>>,
        !.orphan_events[view_id] = <<>>,
        !.nodes = DataSet_remove(@, {id \in DOMAIN @ : id[1] = view_id}),
        !.edges = DataSet_remove(@, {id \in DOMAIN @ : id[1] = view_id})]

\* remove_dag panics: `expect("No data set found")` before VisJsService::init,
\* and the index out of the bounds of the lists add_dag extends.
remove_dag_panics(v, view_id) ==
    v.network = "None" \/ Len(v.earliest_events) < view_id

\* The seeds update_dag hands to the DAG; "unused" when the frontier is the same.
NoSeeds == [view |-> 0, earlier |-> "unused", new |-> "unused"]

\* First half of update_dag: the earliest events have changed.
update_dag_earlier(v, s, view_id, backend) ==
    LET old_earliest == v.earliest_events[view_id]
        new_earliest == earliest_events(s)
        old_orphans == v.orphan_events[view_id]
        new_orphans == OrphanInfo(s)
        panics == \E i \in DOMAIN old_earliest : old_earliest[i] \notin DOMAIN s.events_map
        ev == add_prefix(add_earlier_events_to_data_set(s, old_earliest), view_id)
        n1 == AddEach(v.nodes, <<ev.nodes>>)
        e1 == AddEach(v.edges, <<ev.edges>>)
        n2 == IF backend = "CS"
              THEN AddEach(DataSet_remove(n1.set, {<<view_id, "more_ev">>}),
                           <<<<more_ev_node(view_id, js_min_depth(ev.nodes) - 1)>>>>)
              ELSE AddEach(DataSet_remove(n1.set, IdsOf(more_of_nodes(view_id, old_orphans))),
                           Singles(more_of_nodes(view_id, new_orphans)))
        e2 == IF backend = "CS"
              THEN AddEach(DataSet_remove(e1.set,
                               IdsOf(more_ev_edges(view_id, old_earliest, "_more_ev"))),
                           Singles(more_ev_edges(view_id, new_earliest, "_move_ev")))
              ELSE AddEach(DataSet_remove(e1.set, IdsOf(more_of_edges(view_id, old_orphans))),
                           Singles(more_of_edges(view_id, new_orphans)))
    IN  IF panics THEN [vis |-> v, throws |-> TRUE]
        ELSE IF n1.throws \/ e1.throws \/ n2.throws \/ e2.throws
        THEN [vis |-> v, throws |-> TRUE]
        ELSE [vis |-> [v EXCEPT !.nodes = n2.set, !.edges = e2.set,
                                !.earliest_events[view_id] = new_earliest,
                                !.orphan_events[view_id] = new_orphans],
              throws |-> FALSE]

\* Second half of update_dag: the latest events have changed. The seed is
\* `self.latest_events[0]`, the list of the first view.
update_dag_new(v, s, view_id) ==
    LET seed == v.latest_events[1]
        panics == \E i \in DOMAIN seed : seed[i] \notin DOMAIN s.events_map
        ev == add_prefix(add_new_events_to_data_set(s, seed), view_id)
        n1 == AddEach(v.nodes, <<ev.nodes>>)
        e1 == AddEach(v.edges, <<ev.edges>>)
    IN  IF panics THEN [vis |-> v, throws |-> TRUE]
        ELSE IF n1.throws \/ e1.throws THEN [vis |-> v, throws |-> TRUE]
        ELSE [vis |-> [v EXCEPT !.nodes = n1.set, !.edges = e1.set,
                                !.latest_events[view_id] = latest_events(s)],
              throws |-> FALSE]

\* VisJsService::update_dag: the service after the call, whether the call
\* panics or its script throws (the service is then kept as it was before the
\* failing half), and the seeds it has used. `x \in {e}` names the value of e.
update_dag(v, s, view_id, backend) ==
    LET first == v.earliest_events[view_id] # earliest_events(s)
        Seeds(r1, second) ==
            [view |-> view_id,
             earlier |-> IF first THEN v.earliest_events[view_id] ELSE "unused",
             new |-> IF second THEN r1.vis.latest_events[1] ELSE "unused"]
    IN  CHOOSE out \in
            {LET second == ~r1.throws /\ r1.vis.latest_events[view_id] # latest_events(s)
             IN  CHOOSE o \in
                     {[vis |-> r2.vis, throws |-> r2.throws, seeds |-> Seeds(r1, second)] :
                         r2 \in {IF second THEN update_dag_new(r1.vis, s, view_id)
                                 ELSE r1}} : TRUE :
                r1 \in {IF first THEN update_dag_earlier(v, s, view_id, backend)
                        ELSE [vis |-> v, throws |-> FALSE]}} : TRUE

\* update_labels without the call of data.nodes.update.
update_labels_nothing(v, s, view_id, backend) == update_dag(v, s, view_id, backend)

\* VisJsService::update_labels
update_labels(v, s, view_id, backend) ==
    CHOOSE out \in
        {IF r.throws THEN r
         ELSE [r EXCEPT !.vis.nodes =
                  DataSet_update(@, add_prefix(create_data_set_with(s), view_id).nodes)] :
            r \in {update_dag(v, s, view_id, backend)}} : TRUE

----------------------------------------------------------------------------
VARIABLES
    events_dag,      \* "None" until from_sync_response has built the DAG, then "Some"
    dag_nodes,       \* dag: the node weights, by node index
    dag_edges,       \* dag: the edges, <<source index, target index>>, in insertion order
    events_map,      \* event id -> node index
    depth_map,       \* depth -> node indices
    latest_event,
    earliest_event,
    max_depth,
    min_depth,
    pre,             \* the RoomEvents value before the last ingestion call
    last,            \* the last ingestion call: [op, events]
    ncalls,          \* number of ingestion calls made
    query,           \* the last read: [op, from]
    data_set,        \* the DataSet the last read returned
    panicked,        \* the thread has panicked
    lock,            \* the RwLock of the RoomEvents: "free" or "write"
    bk_type,         \* Model::bk_type
    views,           \* Model::views
    vis,             \* Model::vis
    fields_choice,   \* Model::fields_choice
    event_body,      \* Model::event_body: "None" or "Some"
    nmsgs,           \* number of messages Model::update has processed
    app_last,        \* the last message Model::update has processed
    requests,        \* the calls of the backend the last message has made
    view_idx,        \* Model::view_idx, the view the inputs of the page write to
    vis_seeds,       \* the seeds of the last call of update_dag
    projected        \* the last event projected alone, and its node

fields == <<dag_nodes, dag_edges, events_map, depth_map,
            latest_event, earliest_event, max_depth, min_depth>>
store_vars == <<events_dag, dag_nodes, dag_edges, events_map, depth_map,
                latest_event, earliest_event, max_depth, min_depth,
                pre, last, ncalls, query, data_set, lock>>
app_vars == <<bk_type, views, vis, fields_choice, event_body,
              nmsgs, app_last, requests, view_idx, vis_seeds, projected>>
vars == <<events_dag, dag_nodes, dag_edges, events_map, depth_map,
          latest_event, earliest_event, max_depth, min_depth,
          pre, last, ncalls, query, data_set, panicked, lock,
          bk_type, views, vis, fields_choice, event_body,
          nmsgs, app_last, requests, view_idx, vis_seeds, projected>>

Self ==
    [dag_nodes |-> dag_nodes, dag_edges |-> dag_edges, events_map |-> events_map,
     depth_map |-> depth_map, latest_event |-> latest_event,
     earliest_event |-> earliest_event, max_depth |-> max_depth,
     min_depth |-> min_depth]

Assign(s) ==
    /\ dag_nodes' = s.dag_nodes
    /\ dag_edges' = s.dag_edges
    /\ events_map' = s.events_map
    /\ depth_map' = s.depth_map
    /\ latest_event' = s.latest_event
    /\ earliest_event' = s.earliest_event
    /\ max_depth' = s.max_depth
    /\ min_depth' = s.min_depth

NoQuery == [op |-> "none", from |-> ""]
NoData == [nodes |-> <<>>, edges |-> <<>>]
NoRes ==
    [joined |-> FALSE, events |-> <<>>, next_batch |-> "", prev_batch |-> "",
     kind |-> ""]
NoMsg == [msg |-> "none", view |-> 0, res |-> NoRes]
NoNode == [ev |-> "none"]

Init ==
    /\ events_dag = "None"
    /\ dag_nodes = NewRoomEvents.dag_nodes
    /\ dag_edges = NewRoomEvents.dag_edges
    /\ events_map = NewRoomEvents.events_map
    /\ depth_map = NewRoomEvents.depth_map
    /\ latest_event = NewRoomEvents.latest_event
    /\ earliest_event = NewRoomEvents.earliest_event
    /\ max_depth = NewRoomEvents.max_depth
    /\ min_depth = NewRoomEvents.min_depth
    /\ pre = NewRoomEvents
    /\ last = [op |-> "none", joined |-> FALSE, events |-> <<>>]
    /\ ncalls = 0
    /\ query = NoQuery
    /\ data_set = NoData
    /\ panicked = FALSE
    /\ lock = "free"
    /\ bk_type = "CS"
    /\ views = <<CSView_new(0)>>
    /\ view_idx = 0
    /\ vis = VisJsService_new
    /\ fields_choice = FieldsChoice_default
    /\ event_body = "None"
    /\ nmsgs = 0
    /\ app_last = NoMsg
    /\ requests = {}
    /\ vis_seeds = NoSeeds
    /\ projected = NoNode

\* An ingestion call: the fields become those of `s`, the call is recorded.
\* When parse_events panics the call unwinds before it has changed a field.
Ingest(op, joined, events, s) ==
    /\ IF joined /\ parse_events_panics(events)
       THEN panicked' = TRUE /\ UNCHANGED fields
       ELSE panicked' = FALSE /\ Assign(s)
    /\ pre' = Self
    /\ last' = [op |-> op, joined |-> joined, events |-> events]
    /\ ncalls' = ncalls + 1
    /\ query' = NoQuery
    /\ data_set' = NoData
    /\ UNCHANGED <<lock, app_vars>>

\* add_new_events without the test on rooms.join.
add_new_events_any_room(s, res) == add_new_events(s, res.events)

\* RoomEvents::add_new_events: nothing happens unless rooms.join holds the room.
add_new_events_of(s, res) ==
    IF res.joined THEN add_new_events(s, res.events) ELSE s

\* The initial sync: RoomEvents::from_sync_response builds the DAG, or returns None
\* when the response does not hold the room.
FromSyncResponse(res) ==
    /\ ~panicked
    /\ events_dag = "None"
    /\ ncalls < MaxCalls
    /\ Len(res.events) <= MaxNodes
    /\ IF res.joined
       THEN /\ events_dag' = IF parse_events_panics(res.events) THEN "None" ELSE "Some"
            /\ Ingest("from_sync_response", TRUE, res.events,
                      from_sync_response(res.events))
       ELSE /\ events_dag' = "None"
            /\ Ingest("from_sync_response", FALSE, res.events, Self)

\* A later sync: RoomEvents::add_new_events.
AddNewEvents(res) ==
    /\ ~panicked
    /\ events_dag = "Some"
    /\ ncalls < MaxCalls
    /\ Len(dag_nodes) + Len(res.events) <= MaxNodes
    /\ events_dag' = events_dag
    /\ Ingest("add_new_events", res.joined, res.events, add_new_events_of(Self, res))

\* A /messages response: RoomEvents::add_prev_events.
AddPrevEvents(events) ==
    /\ ~panicked
    /\ events_dag = "Some"
    /\ ncalls < MaxCalls
    /\ Len(dag_nodes) + Len(events) <= MaxNodes
    /\ events_dag' = events_dag
    /\ Ingest("add_prev_events", TRUE, events, add_prev_events(Self, events))

\* A read that does not wait for the writer.
read_unlocked == TRUE

\* RwLock::read of `events_dag.read().unwrap()`: granted while no writer holds
\* the lock.
read_lock == lock = "free"

\* A reader that keeps a cursor: it moves the frontier to the seed it was given.
Read_with_cursor(op, from, ds) ==
    /\ ~panicked
    /\ events_dag = "Some"
    /\ query' = [op |-> op, from |-> from]
    /\ data_set' = ds
    /\ latest_event' = IF op = "get_new_events" THEN from ELSE latest_event
    /\ earliest_event' = IF op = "get_earlier_events" THEN from ELSE earliest_event
    /\ UNCHANGED <<events_dag, dag_nodes, dag_edges, events_map, depth_map,
                   max_depth, min_depth, pre, last, ncalls, panicked, lock, app_vars>>

\* A read of the RoomEvents: the store is borrowed immutably (&self).
Read(op, from, ds) ==
    /\ ~panicked
    /\ events_dag = "Some"
    /\ read_lock
    /\ query' = [op |-> op, from |-> from]
    /\ data_set' = ds
    /\ UNCHANGED <<events_dag, fields, pre, last, ncalls, panicked, lock, app_vars>>

\* RoomEvents::create_data_set
CreateDataSet == Read("create_data_set", "", create_data_set(Self))

\* RoomEvents::get_earlier_events; `from` is an id the events map holds (unwrap).
GetEarlierEvents(from) ==
    /\ from \in DOMAIN events_map
    /\ Read("get_earlier_events", from, get_earlier_events(Self, from))

\* RoomEvents::get_new_events; `from` is an id the events map holds (unwrap).
GetNewEvents(from) ==
    /\ from \in DOMAIN events_map
    /\ Read("get_new_events", from, get_new_events(Self, from))

EventIds == {e.event_id : e \in RawEvents}

Next ==
    \/ \E res \in SyncResponses : FromSyncResponse(res)
    \/ \E res \in SyncResponses : AddNewEvents(res)
    \/ \E events \in Batches : AddPrevEvents(events)
    \/ CreateDataSet
    \/ \E from \in EventIds : GetEarlierEvents(from)
    \/ \E from \in EventIds : GetNewEvents(from)

Spec == Init /\ [][Next]_vars

\* The same program fed with the events that tie and repeat.
NextTies ==
    \/ \E res \in SyncResponsesOver(TieEvents) : FromSyncResponse(res)
    \/ \E res \in SyncResponsesOver(TieEvents) : AddNewEvents(res)
    \/ \E events \in BatchesOver(TieEvents) : AddPrevEvents(events)
    \/ CreateDataSet
    \/ \E from \in DOMAIN events_map : GetEarlierEvents(from)
    \/ \E from \in DOMAIN events_map : GetNewEvents(from)

SpecTies == Init /\ [][NextTies]_vars

\* The same program fed with the events that lack a key.
NextPartial ==
    \/ \E res \in SyncResponsesOver(PartialEvents) : FromSyncResponse(res)
    \/ \E res \in SyncResponsesOver(PartialEvents) : AddNewEvents(res)
    \/ \E events \in BatchesOver(PartialEvents) : AddPrevEvents(events)
    \/ CreateDataSet
    \/ \E from \in DOMAIN events_map : GetEarlierEvents(from)
    \/ \E from \in DOMAIN events_map : GetNewEvents(from)

SpecPartial == Init /\ [][NextPartial]_vars

\* The ingestion calls of Model::process_bk_response step by step:
\* `dag.write().unwrap().add_..(..)` takes the write lock, runs the loop that
\* adds the nodes, then resolves the edges, and the guard is dropped when the
\* statement ends. A panic of parse_events leaves the lock poisoned.
WriteNodes(op, events, s) ==
    /\ ~panicked
    /\ events_dag = "Some"
    /\ lock = "free"
    /\ ncalls < MaxCalls
    /\ Len(dag_nodes) + Len(events) <= MaxNodes
    /\ lock' = "write"
    /\ IF parse_events_panics(events)
       THEN panicked' = TRUE /\ UNCHANGED fields
       ELSE panicked' = FALSE /\ Assign(s)
    /\ pre' = Self
    /\ last' = [op |-> op, joined |-> TRUE, events |-> events]
    /\ ncalls' = ncalls + 1
    /\ query' = NoQuery
    /\ data_set' = NoData
    /\ UNCHANGED <<events_dag, app_vars>>

\* The loop of add_new_events, and the one of add_prev_events.
AddNewEventsNodes(events) ==
    WriteNodes("add_new_events", events, NewLoop(Self, parse_events(events)))

AddPrevEventsNodes(events) ==
    WriteNodes("add_prev_events", events, PrevLoop(Self, parse_events(events)))

\* The end of the call: get_new_edges over the depths the batch has spanned,
\* extend_with_edges, and the write guard is dropped.
WriteEdges ==
    /\ ~panicked
    /\ lock = "write"
    /\ Assign(extend_with_edges(Self,
            IF last.op = "add_new_events"
            THEN get_new_edges(dag_nodes, dag_edges, events_map, depth_map,
                               pre.max_depth, max_depth)
            ELSE get_new_edges(dag_nodes, dag_edges, events_map, depth_map,
                               min_depth, pre.min_depth)))
    /\ lock' = "free"
    /\ UNCHANGED <<events_dag, pre, last, ncalls, query, data_set, panicked, app_vars>>

NextLock ==
    \/ \E res \in SyncResponses : FromSyncResponse(res)
    \/ \E events \in Batches : AddNewEventsNodes(events)
    \/ \E events \in Batches : AddPrevEventsNodes(events)
    \/ WriteEdges
    \/ CreateDataSet
    \/ \E from \in EventIds : GetEarlierEvents(from)
    \/ \E from \in EventIds : GetNewEvents(from)

SpecLock == Init /\ [][NextLock]_vars

----------------------------------------------------------------------------
\* Model::update: one action for each message it processes. A message a
\* handler emits with `send_back(..).emit(())` is processed right after the
\* handler, before any other message: it is part of the action.

SetTask(vw, t, val) == [vw EXCEPT !.tasks[t] = val]

\* VisJsService::is_active
is_active(v) == v.network # "None"

\* VisJsService::init: the network and two empty vis.DataSet.
init(v) == [v EXCEPT !.network = "Some", !.nodes = EmptyMap, !.edges = EmptyMap]

\* What a handler leaves: the views, the service, whether it has panicked and
\* the seeds update_dag has used. The message is recorded.
AppStep(msg, view_id, res, new_views, new_vis, throws, new_seeds) ==
    /\ nmsgs < MaxMsgs
    /\ nmsgs' = nmsgs + 1
    /\ views' = new_views
    /\ vis' = new_vis
    /\ panicked' = throws
    /\ vis_seeds' = new_seeds
    /\ app_last' = [msg |-> msg, view |-> view_id, res |-> res]
    /\ projected' = NoNode
    /\ UNCHANGED <<store_vars, view_idx>>

\* The requests of CSBackend that carry the access token of the session.
Authenticated ==
    {"list_rooms", "join_room", "sync", "get_prev_messages", "room_state",
     "leave_room", "disconnect"}

\* `view.<task> = Some(view.backend.<rq>(..))`: the request is sent and its
\* task is kept. A request of CSBackend that carries the access token unwraps
\* it and panics when the session holds none.
Call(vw, task, rq) ==
    IF vw.kind = "CS" /\ rq \in Authenticated /\ vw.session.access_token = "None"
    THEN [view |-> vw, requests |-> {rq}, throws |-> TRUE]
    ELSE [view |-> SetTask(vw, task, "Some"), requests |-> {rq}, throws |-> FALSE]

\* An arm that only writes to the console.
NoCall(vw) == [view |-> vw, requests |-> {}, throws |-> FALSE]

\* The handlers that change one view and nothing else: `c` is what the
\* command has done.
ViewStep(msg, view_id, c) ==
    /\ AppStep(msg, view_id, NoRes, [views EXCEPT ![view_id] = c.view], vis,
               c.throws, NoSeeds)
    /\ requests' = c.requests
    /\ UNCHANGED <<bk_type, fields_choice, event_body>>

\* BkCommand::ListRooms, JoinRoom and Sync, on the view.
cmd_ListRooms(vw) ==
    IF vw.kind = "CS" THEN Call(vw, "listing_rooms_task", "list_rooms") ELSE NoCall(vw)
cmd_JoinRoom(vw) ==
    IF vw.kind = "CS" THEN Call(vw, "joining_room_task", "join_room") ELSE NoCall(vw)
cmd_Sync(vw) ==
    IF vw.kind = "CS" THEN Call(vw, "sync_task", "sync")
    ELSE IF vw.events_dag # NoDag THEN Call(vw, "descendants_task", "descendants")
    ELSE NoCall(vw)

\* BkCommand::Connect, on the view.
cmd_Connect(vw) ==
    IF vw.kind = "CS"
    THEN IF vw.session.access_token = "None" /\ vw.tasks["connection_task"] = "None"
         THEN Call(vw, "connection_task", "connect") ELSE NoCall(vw)
    ELSE IF vw.events_dag = NoDag /\ vw.tasks["deepest_task"] = "None"
         THEN Call(vw, "deepest_task", "deepest") ELSE NoCall(vw)

\* A MoreMsg arm that asks again while a request is in flight.
cmd_MoreMsg_again(vw) ==
    IF vw.kind = "CS" THEN Call(vw, "more_msg_task", "get_prev_messages")
    ELSE IF vw.events_dag # NoDag THEN Call(vw, "ancestors_task", "ancestors")
    ELSE NoCall(vw)

\* BkCommand::MoreMsg, on the view the "#targeted-view" input names.
cmd_MoreMsg(vw) ==
    IF vw.kind = "CS"
    THEN IF vw.tasks["more_msg_task"] = "None"
         THEN Call(vw, "more_msg_task", "get_prev_messages") ELSE NoCall(vw)
    ELSE IF vw.tasks["ancestors_task"] = "None" /\ vw.events_dag # NoDag
         THEN Call(vw, "ancestors_task", "ancestors") ELSE NoCall(vw)

\* BkCommand::FetchState, on the view the "#targeted-view" input names.
cmd_FetchState(vw) ==
    IF vw.tasks["state_task"] = "None"
    THEN Call(vw, "state_task", IF vw.kind = "CS" THEN "room_state" ELSE "state")
    ELSE NoCall(vw)

\* BkCommand::LeaveRoom, on the view.
cmd_LeaveRoom(vw) ==
    IF vw.kind = "CS" /\ vw.tasks["leaving_room_task"] = "None"
    THEN Call(vw, "leaving_room_task", "leave_room") ELSE NoCall(vw)

\* BkCommand::Disconnect, on the view.
cmd_Disconnect(vw) ==
    IF vw.kind = "CS"
    THEN IF vw.session.access_token # "None" /\ vw.tasks["disconnection_task"] = "None"
         THEN Call(vw, "disconnection_task", "disconnect") ELSE NoCall(vw)
    ELSE IF vw.session.connected /\ vw.tasks["stop_task"] = "None"
         THEN Call(vw, "stop_task", "stop") ELSE NoCall(vw)

\* The commands of the buttons, with their handlers.
Commands == {"Connect", "MoreMsg", "FetchState", "LeaveRoom", "Disconnect"}
cmd(c, vw) ==
    CASE c = "Connect" -> cmd_Connect(vw)
      [] c = "MoreMsg" -> cmd_MoreMsg(vw)
      [] c = "FetchState" -> cmd_FetchState(vw)
      [] c = "LeaveRoom" -> cmd_LeaveRoom(vw)
      [] c = "Disconnect" -> cmd_Disconnect(vw)

\* A command of a button is processed; the button of FetchState is disabled
\* while there is no event body.
Command(c, view_id) ==
    /\ ~panicked
    /\ c = "FetchState" => event_body # "None"
    /\ \E r \in {cmd(c, views[view_id])} : ViewStep(c, view_id, r)

\* The command does more than write to the console.
Effective(c, view_id) == cmd(c, views[view_id]) # NoCall(views[view_id])

\* BkCommand::Connect, from the button of the view.
Connect(view_id) == Effective("Connect", view_id) /\ Command("Connect", view_id)

\* BkCommand::MoreMsg, for the view the "#targeted-view" input names.
MoreMsg(view_id) == Effective("MoreMsg", view_id) /\ Command("MoreMsg", view_id)

\* BkCommand::FetchState
FetchState(view_id) == Effective("FetchState", view_id) /\ Command("FetchState", view_id)

\* BkCommand::LeaveRoom
LeaveRoom(view_id) == Effective("LeaveRoom", view_id) /\ Command("LeaveRoom", view_id)

\* BkCommand::Disconnect, from the button of the view.
Disconnect(view_id) == Effective("Disconnect", view_id) /\ Command("Disconnect", view_id)

\* UICommand::DisplayEventBody
DisplayEventBody(view_id, event_id) ==
    /\ ~panicked
    /\ views[view_id].events_dag # NoDag
    /\ event_body' = IF event_id \in DOMAIN views[view_id].events_dag.events_map
                     THEN "Some" ELSE "None"
    /\ AppStep("DisplayEventBody", view_id, NoRes, views, vis, FALSE, NoSeeds)
    /\ requests' = {}
    /\ UNCHANGED <<bk_type, fields_choice>>

\* Model::display_backend_choice: the radio buttons of the backends are on the
\* page while no view is connected (no CS session holds an access token, no
\* Postgres session is marked connected).
display_backend_choice ==
    ~\E i \in DOMAIN views :
        IF views[i].kind = "CS" THEN views[i].session.access_token # "None"
                                ELSE views[i].session.connected

\* UIEvent::ChooseCSBackend: every view is replaced by a new CSView with the
\* id of its index; the server name and the room id are copied from the old
\* view when it is a PgView.
ChooseCSBackend ==
    /\ ~panicked
    /\ display_backend_choice
    /\ bk_type' = "CS"
    /\ AppStep("ChooseCSBackend", 0, NoRes,
               [i \in DOMAIN views |->
                   IF views[i].kind = "Postgres"
                   THEN [CSView_new(i - 1) EXCEPT
                            !.session.server_name = views[i].session.server_name,
                            !.session.room_id = views[i].session.room_id]
                   ELSE CSView_new(i - 1)],
               vis, FALSE, NoSeeds)
    /\ requests' = {}
    /\ UNCHANGED <<fields_choice, event_body>>

\* UIEvent::ChoosePostgresBackend: every view is replaced by a new PgView with
\* the id of its index; the server name and the room id are copied from the
\* old view when it is a CSView.
ChoosePostgresBackend ==
    /\ ~panicked
    /\ display_backend_choice
    /\ bk_type' = "Postgres"
    /\ AppStep("ChoosePostgresBackend", 0, NoRes,
               [i \in DOMAIN views |->
                   IF views[i].kind = "CS"
                   THEN [PgView_new(i - 1) EXCEPT
                            !.session.server_name = views[i].session.server_name,
                            !.session.room_id = views[i].session.room_id]
                   ELSE PgView_new(i - 1)],
               vis, FALSE, NoSeeds)
    /\ requests' = {}
    /\ UNCHANGED <<fields_choice, event_body>>

\* UIEvent::AddView
AddView ==
    /\ ~panicked
    /\ Len(views) < MaxViews
    /\ AppStep("AddView", 0, NoRes,
               Append(views, IF bk_type = "CS" THEN CSView_new(Len(views))
                                                ELSE PgView_new(Len(views))),
               vis, FALSE, NoSeeds)
    /\ requests' = {}
    /\ UNCHANGED <<bk_type, fields_choice, event_body>>

\* UIEvent::ViewChoice, from the option of a view of the page.
ViewChoice(vc) ==
    /\ ~panicked
    /\ vc + 1 \in DOMAIN views
    /\ nmsgs < MaxMsgs
    /\ nmsgs' = nmsgs + 1
    /\ view_idx' = vc
    /\ app_last' = [msg |-> "ViewChoice", view |-> vc + 1, res |-> NoRes]
    /\ requests' = {}
    /\ vis_seeds' = NoSeeds
    /\ projected' = NoNode
    /\ UNCHANGED <<store_vars, panicked, bk_type, views, vis, fields_choice, event_body>>

\* UIEvent::ServerName: the input writes the server name of the chosen view.
UI_ServerName(sn) ==
    /\ ~panicked
    /\ AppStep("ServerName", view_idx + 1, NoRes,
               [views EXCEPT ![view_idx + 1].session.server_name = sn],
               vis, FALSE, NoSeeds)
    /\ requests' = {}
    /\ UNCHANGED <<bk_type, fields_choice, event_body>>

\* UIEvent::RoomId: the input writes the room id of every view.
UI_RoomId(ri) ==
    /\ ~panicked
    /\ AppStep("RoomId", 0, NoRes,
               [i \in DOMAIN views |-> [views[i] EXCEPT !.session.room_id = ri]],
               vis, FALSE, NoSeeds)
    /\ requests' = {}
    /\ UNCHANGED <<bk_type, fields_choice, event_body>>

\* The loop `for view in &self.views` of the Toggle handlers, from view i on.
RECURSIVE ToggleViews(_, _, _, _, _)
ToggleViews(vs, v, i, selected, backend) ==
    IF i > Len(vs) THEN [views |-> vs, vis |-> v, throws |-> FALSE]
    ELSE IF vs[i].events_dag = NoDag THEN ToggleViews(vs, v, i + 1, selected, backend)
    ELSE CHOOSE out \in
           {LET ws == [vs EXCEPT ![i].events_dag = dag]
            IN  IF ~is_active(v) THEN ToggleViews(ws, v, i + 1, selected, backend)
                ELSE CHOOSE o \in
                       {IF r.throws THEN [views |-> ws, vis |-> r.vis, throws |-> TRUE]
                        ELSE ToggleViews(ws, r.vis, i + 1, selected, backend) :
                           r \in {update_labels(v, dag, i, backend)}} : TRUE :
               dag \in {change_fields(vs[i].events_dag, selected)}} : TRUE

\* UIEvent::ToggleSender, ..., ToggleEventID, for the field f.
Toggle(f) ==
    LET checked == ~fields_choice.checked[f]
        selected == IF checked THEN fields_choice.fields \cup {f}
                    ELSE fields_choice.fields \ {f}
    IN  /\ ~panicked
        /\ fields_choice' = [checked |-> [fields_choice.checked EXCEPT ![f] = checked],
                             fields |-> selected]
        /\ \E r \in {ToggleViews(views, vis, 1, selected, bk_type)} :
              AppStep("Toggle", 0, [NoRes EXCEPT !.kind = f],
                      r.views, r.vis, r.throws, NoSeeds)
        /\ requests' = {}
        /\ UNCHANGED <<bk_type, event_body>>

\* The handlers of the responses. A response comes while the task of its
\* request is held: dropping a FetchTask cancels the request.

\* What a handler has done when it returns or panics.
Done(vw, v, sd) ==
    [view |-> vw, vis |-> v, throws |-> FALSE, seeds |-> sd, requests |-> {}]
Panic(vw, v, sd) ==
    [view |-> vw, vis |-> v, throws |-> TRUE, seeds |-> sd, requests |-> {}]

\* The command the handler emits when it returns: `c` is what it does.
Then(r, c) == [r EXCEPT !.view = c.view, !.requests = c.requests, !.throws = c.throws]

\* RoomEvents::from_deepest_events
from_deepest_events(events, selected) == WithFields(from_sync_response(events), selected)

\* `if !self.vis.is_active() { self.vis.init(..) }; self.vis.add_dag(dag, view_id)`
ShowDag(vw, v, view_id, backend) ==
    CHOOSE out \in
        {IF r.throws THEN Panic(vw, r.vis, NoSeeds) ELSE Done(vw, r.vis, NoSeeds) :
            r \in {add_dag(IF is_active(v) THEN v ELSE init(v),
                           vw.events_dag, view_id, backend)}} : TRUE

\* `dag.write().unwrap().add_events(events); self.vis.update_dag(dag, view_id)`:
\* `side` names the ingestion the response calls for, "new" or "prev".
GrowDag(vw, v, view_id, backend, events, side) ==
    IF parse_events_panics(events) THEN Panic(vw, v, NoSeeds)
    ELSE CHOOSE out \in
           {LET ww == [vw EXCEPT !.events_dag = dag]
            IN  CHOOSE o \in
                    {IF r.throws THEN Panic(ww, r.vis, r.seeds)
                     ELSE Done(ww, r.vis, r.seeds) :
                        r \in {update_dag(v, dag, view_id, backend)}} : TRUE :
               dag \in {IF side = "new" THEN add_new_events(vw.events_dag, events)
                         ELSE add_prev_events(vw.events_dag, events)}} : TRUE

\* The initial sync: the prev batch token, the DAG and its display.
SyncedFirst(v1, v, view_id, res, selected) ==
    LET v2 == IF res.joined
              THEN [v1 EXCEPT !.session.prev_batch_token = res.prev_batch]
              ELSE v1
    IN  IF ~res.joined
        THEN IF v2.events_dag # NoDag THEN ShowDag(v2, v, view_id, "CS")
             ELSE Done(v2, v, NoSeeds)
        ELSE IF parse_events_panics(res.events) THEN Panic(v2, v, NoSeeds)
        ELSE CHOOSE out \in
               {ShowDag([v2 EXCEPT !.events_dag = dag], v, view_id, "CS") :
                   dag \in {WithFields(from_sync_response(res.events), selected)}} : TRUE

\* BkResponse::Synced, up to the request for the next sync.
SyncedView(vw, v, view_id, res, selected) ==
    LET v1 == SetTask(vw, "sync_task", "None")
    IN  CHOOSE out \in
            {IF r.throws THEN r
             ELSE Then(r, cmd_Sync([r.view EXCEPT
                                      !.session.next_batch_token = res.next_batch])) :
                r \in {IF v1.session.next_batch_token = "None"
                       THEN SyncedFirst(v1, v, view_id, res, selected)
                       ELSE IF v1.events_dag # NoDag /\ res.joined
                       THEN GrowDag(v1, v, view_id, "CS", res.events, "new")
                       ELSE Done(v1, v, NoSeeds)}} : TRUE

\* BkResponse::MsgGot
MsgGotView(vw, v, view_id, res) ==
    LET v1 == [SetTask(vw, "more_msg_task", "None") EXCEPT
                  !.session.prev_batch_token = res.prev_batch]
    IN  IF v1.events_dag # NoDag
        THEN GrowDag(v1, v, view_id, "CS", res.events, "prev")
        ELSE Done(v1, v, NoSeeds)

\* A Disconnected arm that forgets the session and the tasks but keeps the DAG
\* and what the renderer shows.
DisconnectedView_keeps_dag(vw, v, view_id) ==
    Done(IF vw.kind = "CS"
         THEN [vw EXCEPT !.tasks["sync_task"] = "None",
                         !.tasks["disconnection_task"] = "None",
                         !.session.access_token = "None",
                         !.session.next_batch_token = "None",
                         !.session.prev_batch_token = "None"]
         ELSE [vw EXCEPT !.tasks["stop_task"] = "None",
                         !.session.connected = FALSE,
                         !.tasks["descendants_timeout_task"] = "None"],
         v, NoSeeds)

\* BkResponse::Disconnected
DisconnectedView(vw, v, view_id) ==
    LET v1 == IF vw.kind = "CS"
              THEN [vw EXCEPT !.tasks["sync_task"] = "None",
                              !.tasks["disconnection_task"] = "None",
                              !.session.access_token = "None",
                              !.session.next_batch_token = "None",
                              !.session.prev_batch_token = "None",
                              !.events_dag = NoDag]
              ELSE [vw EXCEPT !.tasks["stop_task"] = "None",
                              !.session.connected = FALSE,
                              !.tasks["descendants_timeout_task"] = "None",
                              !.events_dag = NoDag]
    IN  IF remove_dag_panics(v, view_id) THEN Panic(v1, v, NoSeeds)
        ELSE Done(v1, remove_dag(v, view_id), NoSeeds)

\* BkResponse::DeepestEvents
DeepestEventsView(vw, v, view_id, res, selected) ==
    LET v1 == [SetTask(vw, "deepest_task", "None") EXCEPT !.session.connected = TRUE]
    IN  IF parse_events_panics(res.events) THEN Panic(v1, v, NoSeeds)
        ELSE CHOOSE out \in
               {IF r.throws THEN r
                ELSE [r EXCEPT !.view = SetTask(r.view, "descendants_timeout_task", "Some")] :
                   r \in {CHOOSE o \in
                             {ShowDag([v1 EXCEPT !.events_dag = dag], v, view_id, "Postgres") :
                                 dag \in {from_deepest_events(res.events, selected)}} :
                             TRUE}} : TRUE

\* BkResponse::Ancestors
AncestorsView(vw, v, view_id, res) ==
    LET v1 == SetTask(vw, "ancestors_task", "None")
    IN  IF v1.events_dag # NoDag
        THEN GrowDag(v1, v, view_id, "Postgres", res.events, "prev")
        ELSE Done(v1, v, NoSeeds)

\* BkResponse::Descendants
DescendantsView(vw, v, view_id, res) ==
    LET v1 == SetTask(vw, "descendants_task", "None")
    IN  CHOOSE out \in
            {IF ~r.throws /\ v1.events_dag # NoDag /\ v1.session.connected
             THEN [r EXCEPT !.view = SetTask(r.view, "descendants_timeout_task", "Some")]
             ELSE r :
                r \in {IF v1.events_dag # NoDag
                       THEN GrowDag(v1, v, view_id, "Postgres", res.events, "new")
                       ELSE Done(v1, v, NoSeeds)}} : TRUE

\* A handler that writes what it has made of its view into every view.
Handle_every_view(msg, view_id, res, r) ==
    /\ AppStep(msg, view_id, res, [i \in DOMAIN views |-> r.view], r.vis,
               r.throws, r.seeds)
    /\ requests' = r.requests
    /\ UNCHANGED <<bk_type, fields_choice>>

\* A handler that works on one view and the service.
Handle(msg, view_id, res, r) ==
    /\ AppStep(msg, view_id, res, [views EXCEPT ![view_id] = r.view], r.vis,
               r.throws, r.seeds)
    /\ requests' = r.requests
    /\ UNCHANGED <<bk_type, fields_choice>>

Held(view_id, kind, task) ==
    /\ ~panicked
    /\ views[view_id].kind = kind
    /\ views[view_id].tasks[task] # "None"

\* BkResponse::Connected, then BkCommand::ListRooms.
Connected(view_id) ==
    /\ Held(view_id, "CS", "connection_task")
    /\ ViewStep("Connected", view_id,
                cmd_ListRooms([SetTask(views[view_id], "connection_task", "None")
                                  EXCEPT !.session.access_token = "token"]))

\* BkResponse::RoomsList, then BkCommand::Sync or BkCommand::JoinRoom.
RoomsList(view_id, contains) ==
    /\ Held(view_id, "CS", "listing_rooms_task")
    /\ LET vw == SetTask(views[view_id], "listing_rooms_task", "None")
       IN  ViewStep("RoomsList", view_id,
                    IF contains THEN cmd_Sync(vw) ELSE cmd_JoinRoom(vw))

\* BkResponse::RoomJoined, then BkCommand::Sync.
RoomJoined(view_id) ==
    /\ Held(view_id, "CS", "joining_room_task")
    /\ ViewStep("RoomJoined", view_id,
                cmd_Sync(SetTask(views[view_id], "joining_room_task", "None")))

\* BkResponse::Synced, then BkCommand::Sync.
Synced(view_id, res) ==
    /\ Held(view_id, "CS", "sync_task")
    /\ \E r \in {SyncedView(views[view_id], vis, view_id, res, fields_choice.fields)} :
          Handle("Synced", view_id, res, r)
    /\ UNCHANGED event_body

\* BkResponse::MsgGot
MsgGot(view_id, res) ==
    /\ Held(view_id, "CS", "more_msg_task")
    /\ \E r \in {MsgGotView(views[view_id], vis, view_id, res)} :
          Handle("MsgGot", view_id, res, r)
    /\ UNCHANGED event_body

\* BkResponse::StateFetched and BkResponse::State
StateFetched(view_id) ==
    /\ ~panicked
    /\ views[view_id].tasks["state_task"] # "None"
    /\ ViewStep(IF views[view_id].kind = "CS" THEN "StateFetched" ELSE "State", view_id,
                NoCall(SetTask(views[view_id], "state_task", "None")))

\* BkResponse::RoomLeft, then BkCommand::Disconnect.
RoomLeft(view_id) ==
    /\ Held(view_id, "CS", "leaving_room_task")
    /\ ViewStep("RoomLeft", view_id,
                cmd_Disconnect(SetTask(views[view_id], "leaving_room_task", "None")))

\* BkResponse::Disconnected, of the disconnection or of the stop request.
Disconnected(view_id) ==
    /\ ~panicked
    /\ views[view_id].tasks[IF views[view_id].kind = "CS"
                            THEN "disconnection_task" ELSE "stop_task"] # "None"
    /\ \E r \in {DisconnectedView(views[view_id], vis, view_id)} :
           /\ Handle("Disconnected", view_id, NoRes, r)
           /\ event_body' = IF r.throws THEN event_body ELSE "None"

\* The task a failure response clears.
ClearedTask ==
    [ConnectionFailed |-> "connection_task",
     ListingRoomsFailed |-> "listing_rooms_task",
     JoiningRoomFailed |-> "joining_room_task",
     SyncFailed |-> "sync_task",
     MoreMsgFailed |-> "more_msg_task",
     FetchStateFailed |-> "more_msg_task",
     LeavingRoomFailed |-> "leaving_room_task",
     DisconnectionFailed |-> "disconnection_task",
     DeepestRqFailed |-> "deepest_task",
     AncestorsRqFailed |-> "ancestors_task",
     DescendantsRqFailed |-> "descendants_task",
     StateRqFailed |-> "state_task"]

\* The task whose callback sends the failure response, by the kind of view.
FailedTask ==
    [CS |-> [ConnectionFailed |-> "connection_task",
             ListingRoomsFailed |-> "listing_rooms_task",
             JoiningRoomFailed |-> "joining_room_task",
             SyncFailed |-> "sync_task",
             MoreMsgFailed |-> "more_msg_task",
             FetchStateFailed |-> "state_task",
             LeavingRoomFailed |-> "leaving_room_task",
             DisconnectionFailed |-> "disconnection_task"],
     Postgres |-> [DeepestRqFailed |-> "deepest_task",
                   AncestorsRqFailed |-> "ancestors_task",
                   DescendantsRqFailed |-> "descendants_task",
                   StateRqFailed |-> "state_task",
                   DisconnectionFailed |-> "stop_task"]]

\* The views whose kind a failure handler tests for.
HandledKind(failure) ==
    IF failure \in {"DeepestRqFailed", "AncestorsRqFailed", "DescendantsRqFailed",
                    "StateRqFailed"}
    THEN "Postgres" ELSE "CS"

\* BkResponse::ConnectionFailed, ..., StateRqFailed
Failed(failure, view_id) ==
    LET vw == views[view_id]
    IN  /\ ~panicked
        /\ failure \in DOMAIN FailedTask[vw.kind]
        /\ vw.tasks[FailedTask[vw.kind][failure]] # "None"
        /\ AppStep(failure, view_id, NoRes,
                   [views EXCEPT ![view_id] =
                       IF vw.kind = HandledKind(failure)
                       THEN SetTask(vw, ClearedTask[failure], "None") ELSE vw],
                   vis, FALSE, NoSeeds)
        /\ requests' = {}
        /\ UNCHANGED <<bk_type, fields_choice, event_body>>

\* BkResponse::DeepestEvents
DeepestEvents(view_id, res) ==
    /\ Held(view_id, "Postgres", "deepest_task")
    /\ \E r \in {DeepestEventsView(views[view_id], vis, view_id, res,
                                    fields_choice.fields)} :
          Handle("DeepestEvents", view_id, res, r)
    /\ UNCHANGED event_body

\* BkResponse::Ancestors
AncestorsGot(view_id, res) ==
    /\ Held(view_id, "Postgres", "ancestors_task")
    /\ \E r \in {AncestorsView(views[view_id], vis, view_id, res)} :
          Handle("Ancestors", view_id, res, r)
    /\ UNCHANGED event_body

\* BkResponse::Descendants
DescendantsGot(view_id, res) ==
    /\ Held(view_id, "Postgres", "descendants_task")
    /\ \E r \in {DescendantsView(views[view_id], vis, view_id, res)} :
          Handle("Descendants", view_id, res, r)
    /\ UNCHANGED event_body

\* The timeout of descendants_timeout_task: BkCommand::Sync, once.
TimeoutElapsed(view_id) ==
    /\ ~panicked
    /\ views[view_id].kind = "Postgres"
    /\ views[view_id].tasks["descendants_timeout_task"] = "Some"
    /\ ViewStep("Sync", view_id,
                cmd_Sync(SetTask(views[view_id], "descendants_timeout_task", "Fired")))

\* Event::to_data_set_node of one event, with the fields now selected.
ToDataSetNode(ev) ==
    /\ ~panicked
    /\ projected' = [ev |-> ev,
                     node |-> to_data_set_node_with(ev, ServerName, fields_choice.fields)]
    /\ UNCHANGED <<store_vars, panicked, bk_type, views, vis, fields_choice, event_body,
                   nmsgs, app_last, requests, view_idx, vis_seeds>>

\* The responses of the homeserver and of the Postgres backend: a response
\* holds some of the events of U, oldest first; a sync response without the
\* room holds no event.
Tokens == {"s1", "s2"}
ChunksOver(U) ==
    {q \in BatchesOver(U) : \A i, j \in DOMAIN q : i < j => q[i].depth < q[j].depth}
SyncedOver(U) ==
    {[NoRes EXCEPT !.joined = TRUE, !.events = q, !.next_batch = t, !.prev_batch = "p1"] :
        q \in ChunksOver(U), t \in Tokens}
    \cup {[NoRes EXCEPT !.next_batch = t] : t \in Tokens}
EventsOver(U) ==
    {[NoRes EXCEPT !.joined = TRUE, !.events = q, !.prev_batch = "p2"] : q \in ChunksOver(U)}

\* The response leaves the DAG of the view within the bound.
Fits(view_id, res) ==
    Len(res.events) +
        (IF views[view_id].events_dag = NoDag THEN 0
         ELSE Len(views[view_id].events_dag.dag_nodes)) <= MaxNodes

Failures == DOMAIN ClearedTask

\* The application with every message, on the events e1 and e2.
AppEvents == {E1, E2}

NextApp ==
    \/ ChooseCSBackend
    \/ ChoosePostgresBackend
    \/ AddView
    \/ \E f \in {"Depth"} : Toggle(f)
    \/ \E v \in DOMAIN views : Connect(v)
    \/ \E v \in DOMAIN views : MoreMsg(v)
    \/ \E v \in DOMAIN views : FetchState(v)
    \/ \E v \in DOMAIN views : LeaveRoom(v)
    \/ \E v \in DOMAIN views : Disconnect(v)
    \/ \E v \in DOMAIN views : \E id \in {"e1"} : DisplayEventBody(v, id)
    \/ \E v \in DOMAIN views : Connected(v)
    \/ \E v \in DOMAIN views : \E contains \in BOOLEAN : RoomsList(v, contains)
    \/ \E v \in DOMAIN views : RoomJoined(v)
    \/ \E v \in DOMAIN views : \E res \in SyncedOver(AppEvents) :
          Fits(v, res) /\ Synced(v, res)
    \/ \E v \in DOMAIN views : \E res \in EventsOver(AppEvents) :
          Fits(v, res) /\ MsgGot(v, res)
    \/ \E v \in DOMAIN views : StateFetched(v)
    \/ \E v \in DOMAIN views : RoomLeft(v)
    \/ \E v \in DOMAIN views : Disconnected(v)
    \/ \E v \in DOMAIN views : \E failure \in Failures : Failed(failure, v)
    \/ \E v \in DOMAIN views : \E res \in EventsOver(AppEvents) :
          Fits(v, res) /\ DeepestEvents(v, res)
    \/ \E v \in DOMAIN views : \E res \in EventsOver(AppEvents) :
          Fits(v, res) /\ AncestorsGot(v, res)
    \/ \E v \in DOMAIN views : \E res \in EventsOver(AppEvents) :
          Fits(v, res) /\ DescendantsGot(v, res)
    \/ \E v \in DOMAIN views : TimeoutElapsed(v)

SpecApp == Init /\ [][NextApp]_vars

\* One view whose buttons are pressed in every state, also while the request
\* of the button is in flight, on the events e1 and m2.
CmdEvents == {E1, M2}

\* The responses of the backends and the timeout of the timer.
CmdResponses ==
    \/ \E v \in DOMAIN views : Connected(v)
    \/ \E v \in DOMAIN views : \E contains \in BOOLEAN : RoomsList(v, contains)
    \/ \E v \in DOMAIN views : RoomJoined(v)
    \/ \E v \in DOMAIN views : \E res \in SyncedOver(CmdEvents) :
          Fits(v, res) /\ Synced(v, res)
    \/ \E v \in DOMAIN views : \E res \in EventsOver(CmdEvents) :
          Fits(v, res) /\ MsgGot(v, res)
    \/ \E v \in DOMAIN views : StateFetched(v)
    \/ \E v \in DOMAIN views : RoomLeft(v)
    \/ \E v \in DOMAIN views : Disconnected(v)
    \/ \E v \in DOMAIN views : \E failure \in Failures : Failed(failure, v)
    \/ \E v \in DOMAIN views : \E res \in EventsOver(CmdEvents) :
          Fits(v, res) /\ DeepestEvents(v, res)
    \/ \E v \in DOMAIN views : \E res \in EventsOver(CmdEvents) :
          Fits(v, res) /\ AncestorsGot(v, res)
    \/ \E v \in DOMAIN views : \E res \in EventsOver(CmdEvents) :
          Fits(v, res) /\ DescendantsGot(v, res)
    \/ \E v \in DOMAIN views : TimeoutElapsed(v)

NextCmd ==
    \/ ChoosePostgresBackend
    \/ \E v \in DOMAIN views : \E c \in Commands : Command(c, v)
    \/ \E v \in DOMAIN views : \E id \in {"e1"} : DisplayEventBody(v, id)
    \/ CmdResponses

SpecCmd == Init /\ [][NextCmd]_vars

\* A CS view that is connected, synced and asked for previous messages, on
\* the chain e1 <- e2 <- e3.
ChainEvents == {E1, E2, E3}

NextBackfill ==
    \/ \E v \in DOMAIN views : Connect(v)
    \/ \E v \in DOMAIN views : MoreMsg(v)
    \/ \E v \in DOMAIN views : Connected(v)
    \/ \E v \in DOMAIN views : \E contains \in BOOLEAN : RoomsList(v, contains)
    \/ \E v \in DOMAIN views : RoomJoined(v)
    \/ \E v \in DOMAIN views : \E res \in SyncedOver(ChainEvents) :
          Fits(v, res) /\ Synced(v, res)
    \/ \E v \in DOMAIN views : \E res \in EventsOver(ChainEvents) :
          Fits(v, res) /\ MsgGot(v, res)

SpecBackfill == Init /\ [][NextBackfill]_vars

\* The same, where every request in flight gets its response and every armed
\* timer elapses; the user presses a button or not.
SpecLive == SpecCmd /\ WF_vars(CmdResponses)

\* The page before any connection: the user adds views, chooses a view, types
\* a server name and a room id, and chooses a backend.
ServerNames == {"a.org", "b.org"}
RoomIds == {"!r:a.org"}

NextViews ==
    \/ ChooseCSBackend
    \/ ChoosePostgresBackend
    \/ AddView
    \/ \E vc \in 0..(MaxViews - 1) : ViewChoice(vc)
    \/ \E sn \in ServerNames : UI_ServerName(sn)
    \/ \E ri \in RoomIds : UI_RoomId(ri)

SpecViews == Init /\ [][NextViews]_vars

\* The projection of single events under every choice of fields.
LabelEvents ==
    {from_value(E1),
     from_value(T2),
     from_value(With(E1, "state_key", "")),
     from_value(With(With(E3, "state_key", "k"), "redacts", "e2"))}

NextLabel ==
    \/ \E f \in Range(Field) : Toggle(f)
    \/ \E ev \in LabelEvents : ToDataSetNode(ev)

SpecLabel == Init /\ [][NextLabel]_vars

----------------------------------------------------------------------------
\* Views of a RoomEvents value used by the properties.

IdOf(s, idx) == s.dag_nodes[idx].event_id

\* The ids of the nodes of the graph.
NodeIds(s) == {IdOf(s, i) : i \in DOMAIN s.dag_nodes}

\* The nodes of the graph that carry the id.
NodesOf(s, id) == {i \in DOMAIN s.dag_nodes : IdOf(s, i) = id}

\* The edges of the graph as <<child id, parent id>>.
EdgeIds(s) == {<<IdOf(s, e[1]), IdOf(s, e[2])>> : e \in Range(s.dag_edges)}

\* The frontier the DAG keeps: its latest and its earliest event.
HeadSet(s) == IF s.latest_event = "" THEN {} ELSE {s.latest_event}
TailSet(s) == IF s.earliest_event = "" THEN {} ELSE {s.earliest_event}

\* The orphan events: the nodes with a parent reference that no edge resolves.
orphan_events(s) ==
    {IdOf(s, i) : i \in {j \in DOMAIN s.dag_nodes :
        \E p \in Range(get_prev_events(s.dag_nodes[j])) :
            ~\E e \in Range(s.dag_edges) : e[1] = j /\ IdOf(s, e[2]) = p}}

\* Nodes, edges and frontier of a graph, by event id.
GraphOf(s) ==
    [nodes |-> NodeIds(s), edges |-> EdgeIds(s),
     heads |-> HeadSet(s), tails |-> TailSet(s), orphans |-> orphan_events(s)]

\* The result of an ingestion entry point on a store.
Apply(op, s, events) ==
    CASE op = "from_sync_response" -> from_sync_response(events)
      [] op = "add_new_events"     -> add_new_events(s, events)
      [] op = "add_prev_events"    -> add_prev_events(s, events)

\* The last call was an ingestion that reached the loop of its entry point.
Ingested == last.op \in {"from_sync_response", "add_new_events", "add_prev_events"} /\ last.joined

Reorderings(q) == {r \in Batches : Len(r) = Len(q) /\ Range(r) = Range(q)}

\* The ids reached from `seeds` along the edges, towards the parents.
RECURSIVE Ancestors(_, _)
Ancestors(s, seeds) ==
    LET next == seeds \cup {e[2] : e \in {f \in EdgeIds(s) : f[1] \in seeds}}
    IN  IF next = seeds THEN seeds ELSE Ancestors(s, next)

\* The ids reached from `seeds` against the edges, towards the children.
RECURSIVE Descendants(_, _)
Descendants(s, seeds) ==
    LET next == seeds \cup {e[1] : e \in {f \in EdgeIds(s) : f[2] \in seeds}}
    IN  IF next = seeds THEN seeds ELSE Descendants(s, next)

\* The store holds one linear chain: no id twice, and every event but the
\* oldest has its only parent in the store.
Oldest(s) == CHOOSE i \in DOMAIN s.dag_nodes :
                \A j \in DOMAIN s.dag_nodes : s.dag_nodes[i].depth <= s.dag_nodes[j].depth
Newest(s) == CHOOSE i \in DOMAIN s.dag_nodes :
                \A j \in DOMAIN s.dag_nodes : s.dag_nodes[i].depth >= s.dag_nodes[j].depth
IsLinearChain(s) ==
    /\ s.dag_nodes # <<>>
    /\ \A id \in NodeIds(s) : Cardinality(NodesOf(s, id)) = 1
    /\ \A i \in DOMAIN s.dag_nodes \ {Oldest(s)} :
          /\ Len(s.dag_nodes[i].prev_events) = 1
          /\ Range(get_prev_events(s.dag_nodes[i])) \subseteq NodeIds(s)

DataSetNodeIds(ds) == {ds.nodes[i].id : i \in DOMAIN ds.nodes}
DataSetEdgeIds(ds) == {<<ds.edges[i].from, ds.edges[i].to>> : i \in DOMAIN ds.edges}

TypeOK == events_dag \in {"None", "Some"}

----------------------------------------------------------------------------
\* C1: order independence. After an ingestion call, every permutation of the
\* batch it was given, ingested by the same entry point into the same store,
\* gives the same nodes, edges and frontier.
C1_OrderIndependence ==
    Ingested =>
        \A r \in Reorderings(last.events) :
            GraphOf(Apply(last.op, pre, r)) = GraphOf(Self)

\* C2: idempotence. After add_new_events or add_prev_events, ingesting the same
\* batch again through the same entry point leaves the graph as it is: no node
\* is added, the edges and the frontier are the same.
C2_Idempotence ==
    (Ingested /\ last.op # "from_sync_response") =>
        LET again == Apply(last.op, Self, last.events)
        IN  /\ Len(again.dag_nodes) = Len(dag_nodes)
            /\ GraphOf(again) = GraphOf(Self)

\* C3: retroactive resolution. When the store held a child whose parent was not
\* in the store and the last batch brought that parent, the edge from the child
\* to the parent exists and the child is no longer an orphan because of it.
C3_RetroactiveResolution ==
    Ingested =>
        \A c \in DOMAIN pre.dag_nodes :
            \A p \in Range(get_prev_events(pre.dag_nodes[c])) :
                (p \notin NodeIds(pre) /\ p \in {ev.event_id : ev \in Range(last.events)})
                    => \E e \in Range(dag_edges) : e[1] = c /\ IdOf(Self, e[2]) = p

\* C4: edge completeness. After every ingestion call, every node whose
\* prev_events names an event of the store has an edge to it.
C4_EdgeCompleteness ==
    \A c \in DOMAIN dag_nodes :
        \A p \in Range(get_prev_events(dag_nodes[c])) :
            p \in NodeIds(Self) => <<IdOf(Self, c), p>> \in EdgeIds(Self)

\* C5: first write wins. The store holds at most one node per event id, and the
\* index recorded for an id that was already known is the one it had.
C5_FirstWriteWins ==
    /\ \A id \in NodeIds(Self) : Cardinality(NodesOf(Self, id)) = 1
    /\ \A id \in DOMAIN pre.events_map : events_map[id] = pre.events_map[id]

\* C6: the frontier matches its definition. Heads are the nodes without
\* incoming edge, tails the nodes without outgoing edge, orphans the nodes with
\* a prev_events id that is not in the store.
C6_FrontierDefinitions ==
    events_dag = "Some" =>
        /\ HeadSet(Self) = {id \in NodeIds(Self) : ~\E e \in EdgeIds(Self) : e[2] = id}
        /\ TailSet(Self) = {id \in NodeIds(Self) : ~\E e \in EdgeIds(Self) : e[1] = id}
        /\ orphan_events(Self) =
              {IdOf(Self, i) : i \in {j \in DOMAIN dag_nodes :
                  \E p \in Range(get_prev_events(dag_nodes[j])) : p \notin NodeIds(Self)}}

\* C7: the concrete scenario. The timeline [e3, e2] gives orphans {e2}; the
\* timeline [e1] after it gives orphans {}, tails {e1} and heads {e3}.
C7_Scenario ==
    /\ (ncalls = 1 /\ Ingested /\ last.events = <<E3, E2>>)
          => orphan_events(Self) = {"e2"}
    /\ (ncalls = 2 /\ Ingested /\ last.op = "add_new_events" /\ last.events = <<E1>>
          /\ pre = from_sync_response(<<E3, E2>>))
          => /\ orphan_events(Self) = {}
             /\ TailSet(Self) = {"e1"}
             /\ HeadSet(Self) = {"e3"}

\* C8: frontier of a linear chain. When the store holds exactly one linear
\* chain, the head set is the newest event, the tail set is the oldest event,
\* and the orphan set is the oldest event when it names a parent, else empty.
C8_ChainFrontier ==
    (events_dag = "Some" /\ IsLinearChain(Self)) =>
        /\ HeadSet(Self) = {IdOf(Self, Newest(Self))}
        /\ TailSet(Self) = {IdOf(Self, Oldest(Self))}
        /\ orphan_events(Self) =
              IF dag_nodes[Oldest(Self)].prev_events = <<>>
              THEN {} ELSE {IdOf(Self, Oldest(Self))}

\* C9: diff minimality. get_earlier_events seeded with the earliest event known
\* before a backfill batch returns no node the store held before the batch and
\* returns every node that the batch made reachable from it by parent edges.
C9_DiffSinceTail ==
    (query.op = "get_earlier_events" /\ last.op = "add_prev_events"
        /\ query.from = pre.earliest_event) =>
        /\ DataSetNodeIds(data_set) \cap NodeIds(pre) = {}
        /\ Ancestors(Self, {query.from}) \ NodeIds(pre) \subseteq DataSetNodeIds(data_set)

\* C10: get_new_events seeded with the latest event known before a live batch
\* returns exactly the nodes that the batch made reachable from it in the child
\* direction, with every edge incident to such a node, and no node the store
\* held before the batch.
C10_DiffSinceHead ==
    (query.op = "get_new_events" /\ last.op = "add_new_events" /\ last.joined
        /\ query.from = pre.latest_event) =>
        LET reached == Descendants(Self, {query.from}) \ NodeIds(pre)
        IN  /\ DataSetNodeIds(data_set) = reached
            /\ DataSetEdgeIds(data_set) =
                  {e \in EdgeIds(Self) : e[1] \in reached \/ e[2] \in reached}
            /\ DataSetNodeIds(data_set) \cap NodeIds(pre) = {}

\* C11: at most one edge per pair. For every child id and parent id the graph
\* holds at most one edge from the child to the parent.
C11_OneEdgePerPair ==
    \A i, j \in DOMAIN dag_edges :
        (/\ IdOf(Self, dag_edges[i][1]) = IdOf(Self, dag_edges[j][1])
         /\ IdOf(Self, dag_edges[i][2]) = IdOf(Self, dag_edges[j][2])) => i = j

\* C12: append only. After an ingestion call every node and every edge the
\* graph held before the call is still there, and the event stored for an id
\* that was already known is the event that was stored before.
C12_AppendOnly ==
    /\ \A i \in DOMAIN pre.dag_nodes :
          i \in DOMAIN dag_nodes /\ dag_nodes[i] = pre.dag_nodes[i]
    /\ \A i \in DOMAIN pre.dag_edges :
          i \in DOMAIN dag_edges /\ dag_edges[i] = pre.dag_edges[i]
    /\ \A id \in DOMAIN pre.events_map :
          id \in DOMAIN events_map /\ EventOf(Self, id) = EventOf(pre, id)

\* C13: parse isolation. A batch with exactly one event that cannot be parsed
\* adds every other event as a node and the call returns without a panic.
C13_ParseIsolation ==
    (/\ last.op \in {"from_sync_response", "add_new_events", "add_prev_events"}
     /\ last.joined
     /\ Cardinality({i \in DOMAIN last.events : ~from_value_ok(last.events[i])}) = 1)
        => /\ ~panicked
           /\ Len(dag_nodes) = Len(pre.dag_nodes) + Len(last.events) - 1

\* C14: room mismatch is a no-op. A sync response without an entry for the
\* room of the store leaves nodes, edges, maps, frontier and depth bounds as
\* they were and raises no error, whatever its events are.
C14_RoomMismatchNoOp ==
    (last.op = "add_new_events" /\ ~last.joined) => (Self = pre /\ ~panicked)

C14_Witness ==
    /\ last.op = "add_new_events" /\ ~last.joined
    /\ E1 \in Range(last.events) /\ E3NoEventId \in Range(last.events)
    /\ dag_nodes # <<>>
    /\ ~panicked

\* C15: the two entry points have the same post-condition. The list that the
\* last call ingested, ingested into the same store by the other entry point,
\* gives the same nodes, edges, frontier and depth bounds.
C15_SamePostCondition ==
    (Ingested /\ last.op \in {"add_new_events", "add_prev_events"}) =>
        LET other == Apply(IF last.op = "add_new_events"
                           THEN "add_prev_events" ELSE "add_new_events",
                           pre, last.events)
        IN  /\ GraphOf(other) = GraphOf(Self)
            /\ other.max_depth = max_depth
            /\ other.min_depth = min_depth

\* C16: deduplication is by event id only. Two nodes are the same node exactly
\* when their event ids are equal, and the events of a batch with distinct ids
\* are kept as distinct nodes, also when they tie on depth and timestamp.
C16_DedupById ==
    /\ \A i, j \in DOMAIN dag_nodes : (IdOf(Self, i) = IdOf(Self, j)) <=> (i = j)
    /\ Ingested =>
          \A a, b \in Range(parse_events(last.events)) :
              /\ NodesOf(Self, a.event_id) # {}
              /\ a.event_id # b.event_id
                    => NodesOf(Self, a.event_id) \cap NodesOf(Self, b.event_id) = {}

\* The order the claims speak of: depth, then origin timestamp, nothing else.
Precedes(a, b) ==
    \/ a.depth < b.depth
    \/ a.depth = b.depth /\ a.origin_server_ts < b.origin_server_ts

NodesWhere(P(_)) == SelectSeq(dag_nodes, P)

\* C17: the older/newer comparison is by depth, then by origin timestamp, and
\* strict. The latest (earliest) event is only replaced by an event that comes
\* strictly after (before) it, and older_events / newer_events return exactly
\* the nodes strictly before / after the reference, so never one that ties.
C17_StrictOrdering ==
    /\ (pre.latest_event # "" /\ latest_event # pre.latest_event)
          => Precedes(EventOf(pre, pre.latest_event), EventOf(Self, latest_event))
    /\ (pre.earliest_event # "" /\ earliest_event # pre.earliest_event)
          => Precedes(EventOf(Self, earliest_event), EventOf(pre, pre.earliest_event))
    /\ query.op = "get_earlier_events"
          => DataSetNodeIds(data_set) =
               {ev.event_id : ev \in Range(NodesWhere(
                   LAMBDA ev : Precedes(ev, EventOf(Self, query.from))))}
    /\ query.op = "get_new_events"
          => DataSetNodeIds(data_set) =
               {ev.event_id : ev \in Range(NodesWhere(
                   LAMBDA ev : Precedes(EventOf(Self, query.from), ev)))}

\* t2 ties with the latest event e2: it did not replace it and is not newer.
C17_Witness ==
    /\ last.op = "add_new_events" /\ last.joined /\ T2 \in Range(last.events)
    /\ pre.latest_event = "e2" /\ latest_event = "e2"
    /\ query.op = "get_new_events" /\ query.from = "e2"
    /\ "t2" \in NodeIds(Self)
    /\ data_set.nodes = <<>>

Least(S) == CHOOSE x \in S : \A y \in S : x <= y
Greatest(S) == CHOOSE x \in S : \A y \in S : x >= y

\* C18: the depth bounds track the whole store. min_depth and max_depth are
\* the least and the greatest depth of the nodes, and the earliest and the
\* latest event are nodes that no node precedes, respectively follows.
C18_DepthBounds ==
    (events_dag = "Some" /\ dag_nodes # <<>>) =>
        LET depths == {dag_nodes[i].depth : i \in DOMAIN dag_nodes}
        IN  /\ min_depth = Least(depths)
            /\ max_depth = Greatest(depths)
            /\ latest_event \in NodeIds(Self)
            /\ earliest_event \in NodeIds(Self)
            /\ \A i \in DOMAIN dag_nodes :
                  /\ ~Precedes(EventOf(Self, latest_event), dag_nodes[i])
                  /\ ~Precedes(dag_nodes[i], EventOf(Self, earliest_event))

\* The parents each event declares, as bare ids in the order of its prev_events.
DeclaredParents(id) ==
    CASE id = "e1" -> <<>>
      [] id = "e2" -> <<"e1">>
      [] id = "t2" -> <<"e1", "e1">>
      [] id = "e3" -> <<"e2">>
      [] id = "e4" -> <<"e3">>

\* C19: normalisation of the parent references. For every stored event, whose
\* prev_events mixes bare ids and [id, metadata] pairs, get_prev_events is the
\* list of the bare ids in the same order, and every edge leads to one of them.
C19_ParentRefs ==
    /\ \A i \in DOMAIN dag_nodes :
          get_prev_events(dag_nodes[i]) = DeclaredParents(IdOf(Self, i))
    /\ \A e \in Range(dag_edges) :
          IdOf(Self, e[2]) \in Range(DeclaredParents(IdOf(Self, e[1])))

\* t2 names e1 as a bare id and as a pair: each entry gave an edge to e1.
C19_Witness ==
    \E i \in DOMAIN dag_nodes :
        /\ dag_nodes[i].prev_events = <<JStr("e1"), JArr("e1")>>
        /\ Cardinality({k \in DOMAIN dag_edges :
               dag_edges[k][1] = i /\ IdOf(Self, dag_edges[k][2]) = "e1"}) = 2

\* C20: parsing fails exactly when event_id, depth or prev_events is missing.
\* An ingestion call panics if and only if one of its raw events lacks one of
\* the three, and an absent optional field is stored as its empty value.
C20_ParseFailsExactly ==
    (last.op \in {"from_sync_response", "add_new_events", "add_prev_events"}
        /\ last.joined) =>
        /\ panicked <=> (\E ev \in Range(last.events) :
                            ~({"event_id", "depth", "prev_events"} \subseteq DOMAIN ev))
        /\ ~panicked =>
              \A i \in DOMAIN dag_nodes : \A f \in OptionFields \cup {"hashes"} :
                  f \in DOMAIN dag_nodes[i]

----------------------------------------------------------------------------
\* The lines of a text: its pieces between the newlines.
RECURSIVE SplitLines(_)
SplitLines(text) ==
    IF text = <<>> THEN <<>>
    ELSE IF \A i \in DOMAIN text : text[i] # "\n" THEN <<text>>
    ELSE LET i == CHOOSE k \in DOMAIN text :
                      text[k] = "\n" /\ \A j \in 1..(k - 1) : text[j] # "\n"
         IN  <<SubSeq(text, 1, i - 1)>> \o SplitLines(SubSeq(text, i + 1, Len(text)))

\* The name that starts the line of a field, and the value the line shows.
NameOf ==
    [f \in Range(Field) |->
        CASE f = "Sender" -> "Sender:"
          [] f = "Origin" -> "Origin:"
          [] f = "OriginServerTS" -> "Origin server time stamp:"
          [] f = "Type" -> "Type:"
          [] f = "StateKey" -> "State key:"
          [] f = "PrevEvents" -> "Previous events:"
          [] f = "Depth" -> "Depth:"
          [] f = "Redacts" -> "Redacts:"
          [] f = "EventID" -> "Event ID:"]

ValueOf(ev, f) ==
    CASE f = "Sender" -> <<" ", ev.sender>>
      [] f = "Origin" -> <<" ", ev.origin>>
      [] f = "OriginServerTS" -> <<" ", ToString(ev.origin_server_ts)>>
      [] f = "Type" -> <<" ", ev.type>>
      [] f = "StateKey" -> <<" ", ev.state_key>>
      [] f = "PrevEvents" -> label_prev_events(get_prev_events(ev))
      [] f = "Depth" -> <<" ", ToString(ev.depth)>>
      [] f = "Redacts" -> <<" ", ev.redacts>>
      [] f = "EventID" -> <<" ", ev.event_id>>

\* The event has a value for the field: state_key and redacts are Options.
HasValue(ev, f) ==
    /\ f = "StateKey" => ev.state_key # "None"
    /\ f = "Redacts" => ev.redacts # "None"

White == {" ", "\n", ""}

\* `line` is `full` without the white space that ends it.
IsTrimOf(line, full) ==
    /\ Len(line) <= Len(full)
    /\ line = SubSeq(full, 1, Len(line))
    /\ \A i \in (Len(line) + 1)..Len(full) : full[i] \in White
    /\ line # <<>> => line[Len(line)] \notin White

\* The label has one line for each field of `shown`, in the order of Field,
\* each line "Name: value", the lines joined by newlines, and it does not end
\* with white space.
LabelShows(ev, text, shown) ==
    LET lines == SplitLines(text)
        order == SelectSeq(Field, LAMBDA f : f \in shown)
    IN  /\ Len(lines) = Len(order)
        /\ \A i \in DOMAIN lines :
              LET full == <<NameOf[order[i]]>> \o ValueOf(ev, order[i])
              IN  IF i < Len(lines) THEN lines[i] = full
                  ELSE IsTrimOf(lines[i], full)
        /\ text # <<>> => text[Len(text)] \notin White

\* C21, as stated: the label of a projected event has the line of every
\* selected field, in the fixed order, joined by newlines without trailing
\* white space.
C21_ExactlySelected ==
    projected # NoNode =>
        LabelShows(projected.ev, projected.node.label, fields_choice.fields)

\* C21, amended: the label has the line of every selected field for which the
\* event has a value (state_key and redacts give no line when they are None),
\* in the fixed order, joined by newlines without trailing white space; the set
\* of selected fields is the set of the checked boxes, whatever the order of
\* the toggles.
C21_LabelProjection ==
    /\ fields_choice.fields = {f \in Range(Field) : fields_choice.checked[f]}
    /\ projected # NoNode =>
          /\ LabelShows(projected.ev, projected.node.label,
                        {f \in fields_choice.fields : HasValue(projected.ev, f)})
          /\ projected.node.id = projected.ev.event_id
          /\ projected.node.level = projected.ev.depth

\* A label of three lines whose last value, an empty state key, was trimmed.
C21_Witness ==
    /\ projected # NoNode
    /\ projected.ev.state_key = ""
    /\ fields_choice.fields = {"Sender", "Origin", "StateKey"}
    /\ projected.node.label[Len(projected.node.label)] = "State key:"

\* C22: create_data_set returns the full projection of the graph: exactly one
\* node record for each event id of the store, exactly one edge record
\* {from: child id, to: parent id} for each edge (child, parent) of the graph,
\* and no edge record that names an id without a node record.
C22_SnapshotProjection ==
    query.op = "create_data_set" =>
        /\ DataSetNodeIds(data_set) = NodeIds(Self)
        /\ \A id \in NodeIds(Self) :
              Cardinality({i \in DOMAIN data_set.nodes : data_set.nodes[i].id = id}) = 1
        /\ DataSetEdgeIds(data_set) = EdgeIds(Self)
        /\ \A e \in EdgeIds(Self) :
              Cardinality({i \in DOMAIN data_set.edges :
                              /\ data_set.edges[i].from = e[1]
                              /\ data_set.edges[i].to = e[2]}) = 1
        /\ \A i \in DOMAIN data_set.edges :
              {data_set.edges[i].from, data_set.edges[i].to}
                  \subseteq DataSetNodeIds(data_set)

\* What a read returns on the store s for the seed `from`.
ReadOf(s, op, from) ==
    CASE op = "create_data_set"    -> create_data_set(s)
      [] op = "get_earlier_events" -> get_earlier_events(s, from)
      [] op = "get_new_events"     -> get_new_events(s, from)

\* C23: the reads are read-only and keep no cursor. A step that is not an
\* ingestion call (create_data_set, get_earlier_events, get_new_events) leaves
\* the nodes, the edges, the maps, the frontier and the depth bounds as they
\* were, and what it returns is what the read returns on the current graph for
\* the seed of this call, whatever reads were made before it.
C23_ReadOnlyCursorFree ==
    [][ncalls' = ncalls =>
            /\ Self' = Self
            /\ events_dag' = events_dag
            /\ data_set' = ReadOf(Self, query'.op, query'.from)]_vars

\* A diff of two nodes and two edges taken from a seed that is not the head
\* of the store.
C23_Witness ==
    /\ query.op = "get_new_events"
    /\ query.from # latest_event
    /\ Len(data_set.nodes) >= 2
    /\ Len(data_set.edges) >= 2

\* C24: batch atomicity for the readers. A read (create_data_set,
\* get_earlier_events, get_new_events, as update_dag makes them under the read
\* lock) never sees a store where the nodes of a batch are added and its edges
\* are not: when a read has returned, no ingestion call is under way and the
\* store is the one the last ingestion call has made of the store before it.
C24_BatchAtomicity ==
    /\ query.op # "none" =>
          /\ lock = "free"
          /\ Ingested /\ ~panicked
          /\ Self = Apply(last.op, pre, last.events)
    /\ (lock = "free" /\ Ingested /\ ~panicked) =>
          Self = Apply(last.op, pre, last.events)

\* A read made after a batch whose edges were resolved in a second step.
C24_Witness ==
    /\ query.op = "get_new_events"
    /\ last.op = "add_new_events"
    /\ Len(dag_edges) > Len(pre.dag_edges)
    /\ Len(data_set.edges) > 0

\* The store between the two steps of a batch that has edges: the nodes are
\* there, the edges are not, and no read is granted.
C24_HalfApplied ==
    /\ lock = "write"
    /\ ~panicked
    /\ Self # Apply(last.op, pre, last.events)

----------------------------------------------------------------------------
\* The step is Model::update on a message for one view.
ForView(view_id) == nmsgs' # nmsgs /\ app_last'.view = view_id

\* C25: the views are independent. Processing a command or a response for the
\* view i leaves the DAG, the session and the task slots of every other view
\* as they were.
C25_ViewsIndependent ==
    [][\A i \in 1..MaxViews :
          ForView(i) =>
              /\ Len(views') = Len(views)
              /\ \A j \in DOMAIN views : j # i => views'[j] = views[j]]_vars

\* The second view has received its events while the first view has a DAG and
\* a request under way.
C25_Witness ==
    /\ app_last.msg \in {"Synced", "DeepestEvents", "Descendants"}
    /\ app_last.view = 2
    /\ app_last.res.events # <<>>
    /\ views[1].events_dag # NoDag
    /\ views[2].events_dag # NoDag
    /\ \E t \in DOMAIN views[1].tasks : views[1].tasks[t] # "None"

\* C26: changing the selected fields projects everything again. After a
\* Toggle message the handler has returned, and for every view that has a DAG
\* the fields of the DAG are the fields the model has selected and, when the
\* renderer is active, every node of the DAG is in the renderer with the label
\* of its event for these fields.
C26_ToggleReprojects ==
    app_last.msg = "Toggle" =>
        /\ ~panicked
        /\ \A i \in DOMAIN views :
              views[i].events_dag # NoDag =>
                  LET dag == views[i].events_dag
                  IN  /\ dag.fields = fields_choice.fields
                      /\ is_active(vis) =>
                            \A id \in DOMAIN dag.events_map :
                                /\ <<i, id>> \in DOMAIN vis.nodes
                                /\ vis.nodes[<<i, id>>].label =
                                      label(EventOf(dag, id), fields_choice.fields)

\* Depth was checked while two views showed their DAGs: the nodes of both
\* views carry the depth.
C26_Witness ==
    /\ app_last.msg = "Toggle"
    /\ "Depth" \in fields_choice.fields
    /\ is_active(vis)
    /\ Len(views) = 2
    /\ \A i \in DOMAIN views :
          /\ views[i].events_dag # NoDag
          /\ \E id \in DOMAIN views[i].events_dag.events_map :
                /\ <<i, id>> \in DOMAIN vis.nodes
                /\ "Depth:" \in Range(vis.nodes[<<i, id>>].label)

\* C27: each view diffs from its own frontier. When update_dag has run for a
\* view, the seed of its diff of new events is the list of latest events the
\* service had recorded for that view, and the seed of its diff of earlier
\* events the list of earliest events recorded for that view.
C27_OwnFrontier ==
    [][(nmsgs' # nmsgs /\ vis_seeds'.view # 0) =>
          LET i == vis_seeds'.view
          IN  /\ vis_seeds'.earlier # "unused" =>
                    vis_seeds'.earlier = vis.earliest_events[i]
              /\ vis_seeds'.new # "unused" =>
                    vis_seeds'.new = vis.latest_events[i]]_vars

\* The DAG of a view as a graph, or no graph.
DagOf(vw) == IF vw.events_dag = NoDag THEN NoDag ELSE Without(vw.events_dag, "fields")

ItemsOf(set, view_id) == {id \in DOMAIN set : id[1] = view_id}

C30_FailureFreesItsSlot ==
    [][(nmsgs' # nmsgs /\ app_last'.msg \in Failures) =>
          LET i == app_last'.view
              slot == FailedTask[views[i].kind][app_last'.msg]
          IN  /\ views'[i].tasks = [views[i].tasks EXCEPT ![slot] = "None"]
              /\ \A j \in DOMAIN views : j # i => views'[j].tasks = views[j].tasks]_vars

\* The slot of the failed request is still held after its failure response.
C30_SlotStillHeld ==
    /\ app_last.msg \in Failures
    /\ views[app_last.view].tasks[FailedTask[views[app_last.view].kind][app_last.msg]] # "None"

\* The task slot that guards a command of a button, for the kind of the view.
SlotOf(c, kind) ==
    CASE c = "Connect" -> IF kind = "CS" THEN "connection_task" ELSE "deepest_task"
      [] c = "MoreMsg" -> IF kind = "CS" THEN "more_msg_task" ELSE "ancestors_task"
      [] c = "FetchState" -> "state_task"
      [] c = "LeaveRoom" -> IF kind = "CS" THEN "leaving_room_task" ELSE "none"
      [] c = "Disconnect" -> IF kind = "CS" THEN "disconnection_task" ELSE "stop_task"

\* The request of the command is in flight or, for Connect, the view is
\* already connected (CS) or already has a DAG (Postgres).
Occupied(c, vw) ==
    \/ SlotOf(c, vw.kind) \in DOMAIN vw.tasks /\ vw.tasks[SlotOf(c, vw.kind)] # "None"
    \/ c = "Connect" /\ vw.kind = "CS" /\ vw.session.access_token # "None"
    \/ c = "Connect" /\ vw.kind = "Postgres" /\ vw.events_dag # NoDag

\* C31: at most one request in flight per guarded command. A Connect,
\* MoreMsg, FetchState, LeaveRoom or Disconnect command processed while its
\* task slot on the view is occupied (for Connect, also while the view is
\* connected or has a DAG) calls no backend request and leaves every view,
\* with its slots and its session, unchanged.
C31_OneRequestInFlight ==
    [][(nmsgs' # nmsgs /\ app_last'.msg \in Commands
            /\ Occupied(app_last'.msg, views[app_last'.view])) =>
          /\ requests' = {}
          /\ views' = views
          /\ ~panicked']_vars

\* "More events" has been pressed while the request for the previous
\* messages was in flight.
C31_Witness ==
    /\ app_last.msg = "MoreMsg"
    /\ views[app_last.view].kind = "CS"
    /\ views[app_last.view].tasks["more_msg_task"] # "None"
    /\ requests = {}
    /\ ~panicked

\* C32: authenticated requests need a token. No message makes a CS view call
\* a backend request that carries the access token (list_rooms, join_room,
\* sync, get_prev_messages, room_state, leave_room, disconnect) while the
\* session of the view holds no access token; so a RoomsList, RoomJoined or
\* Synced response processed after Disconnected calls none.
C32_TokenForRequests ==
    [][(nmsgs' # nmsgs /\ app_last'.view \in DOMAIN views'
            /\ views'[app_last'.view].kind = "CS"
            /\ requests' \cap Authenticated # {}) =>
          views'[app_last'.view].session.access_token # "None"]_vars

\* The view is connected: its CS session holds an access token, its Postgres
\* session is marked connected.
IsConnected(vw) ==
    IF vw.kind = "CS" THEN vw.session.access_token # "None" ELSE vw.session.connected

\* A request for new events is under way: the sync request (CS), the armed
\* timer or the descendants request it has sent (Postgres).
NewEventsRequested(vw) ==
    IF vw.kind = "CS" THEN vw.tasks["sync_task"] # "None"
    ELSE \/ vw.tasks["descendants_timeout_task"] = "Some"
         \/ vw.tasks["descendants_task"] # "None"

\* The last message was a response, success or failure, to the sync request
\* or to the descendants request of the view.
SyncResponded(view_id) ==
    /\ app_last.view = view_id
    /\ app_last.msg \in {"Synced", "SyncFailed", "Descendants", "DescendantsRqFailed"}

\* A response to the sync or descendants request of the connected view v has
\* just been processed.
Responded(v) ==
    IF v \in DOMAIN views THEN SyncResponded(v) /\ IsConnected(views[v]) ELSE FALSE

\* The view v is disconnected or a request for its new events is under way.
Flowing(v) ==
    IF v \in DOMAIN views
    THEN ~IsConnected(views[v]) \/ NewEventsRequested(views[v]) ELSE TRUE

\* C33: live updates keep flowing while connected. After every response to a
\* sync or descendants request of a view, success or failure, a further
\* request for new events is eventually under way, unless the view is then
\* disconnected.
C33_LiveUpdates == \A v \in 1..MaxViews : [](Responded(v) => <>Flowing(v))

\* The "Load ancestors" nodes the renderer shows for a view.
LoadAncestorsOf(v, view_id) ==
    {id \in DOMAIN v.nodes : id[1] = view_id /\ Len(id) = 3 /\ id[2] = "more_of"}

\* C34: the recorded frontier of the renderer follows the DAG. Whenever the
\* handlers have returned, for every view that has a DAG the earliest, latest
\* and orphan lists the renderer has recorded for the view are those of the
\* DAG, and in Postgres mode the "Load ancestors" nodes of the view are
\* exactly one per orphan event of the DAG.
C34_FrontierFollowsDag ==
    ~panicked =>
        \A i \in DOMAIN views :
            views[i].events_dag # NoDag =>
                /\ Len(vis.earliest_events) >= i
                /\ vis.earliest_events[i] = earliest_events(views[i].events_dag)
                /\ vis.latest_events[i] = latest_events(views[i].events_dag)
                /\ vis.orphan_events[i] = OrphanInfo(views[i].events_dag)
                /\ bk_type = "Postgres" =>
                      LoadAncestorsOf(vis, i) =
                          {<<i, "more_of", o.id>> :
                              o \in Range(OrphanInfo(views[i].events_dag))}

\* The edges of the renderer that point to the "Load more events" node of a
\* view.
MoreEvEdges(v, view_id) ==
    {id \in DOMAIN v.edges : v.edges[id].to = <<view_id, "more_ev">>}

\* C35: the "Load more events" affordance in CS mode. Whenever the handlers
\* have returned, for every view that has a DAG the renderer holds the node
\* "subdag_v_more_ev", and the edges that point to it are exactly one per
\* earliest event of the view: none comes from a former earliest event and
\* none comes twice.
C35_LoadMoreEvents ==
    (~panicked /\ bk_type = "CS") =>
        \A i \in DOMAIN views :
            views[i].events_dag # NoDag =>
                /\ <<i, "more_ev">> \in DOMAIN vis.nodes
                /\ {vis.edges[id].from : id \in MoreEvEdges(vis, i)} =
                      {<<i, ev>> : ev \in Range(earliest_events(views[i].events_dag))}
                /\ Cardinality(MoreEvEdges(vis, i)) =
                      Cardinality(Range(earliest_events(views[i].events_dag)))


\* The ids of the views are their indices and every view is of the backend
\* selected.
IdsAreIndices ==
    \A i \in DOMAIN views : views[i].id = i - 1 /\ views[i].kind = bk_type

\* The last message has chosen a backend.
BackendChosen == app_last'.msg \in {"ChooseCSBackend", "ChoosePostgresBackend"}

\* A step keeps the number of views and the server name and the room id of
\* each view.
KeepsViews ==
    /\ Len(views') = Len(views)
    /\ \A i \in DOMAIN views :
          /\ views'[i].session.server_name = views[i].session.server_name
          /\ views'[i].session.room_id = views[i].session.room_id

\* C36: view identifiers are view indices. In every reachable state the view
\* stored at index i has id i and is of the backend kind selected in bk_type;
\* AddView and the choice of a backend keep this, and the choice of a backend
\* keeps the number of views and the server name and the room id of each
\* view.
C36_ViewIdsAreIndices ==
    /\ []IdsAreIndices
    /\ [][(nmsgs' # nmsgs /\ BackendChosen) => KeepsViews]_vars

\* The part of C36 on the ids and the kinds alone.
C36_IdsAndKinds == IdsAreIndices

\* The part of C36 on what a choice of backend keeps, for a choice of the
\* other backend.
C36_SwitchKeeps ==
    [][(nmsgs' # nmsgs /\ BackendChosen /\ bk_type' # bk_type) => KeepsViews]_vars

\* The part of C36 on what a choice of backend keeps, for the number of views.
C36_SameNumber ==
    [][(nmsgs' # nmsgs /\ BackendChosen) => Len(views') = Len(views)]_vars

====
